---------------------------- MODULE Spec2Model ----------------------------
(***************************************************************************)
(* Line Cleaner (obsidian-line-cleaner): the text-cleaning pipeline of     *)
(* src/main.ts.  A text is a string; offsets are the 0-based offsets of    *)
(* the TypeScript source, -1 meaning "not found".                          *)
(***************************************************************************)
EXTENDS Integers, Sequences, FiniteSets, TLC

VARIABLES
    settings,            \* this.settings
    content,             \* the text the running function was called with
    processedContent,    \* the running text of the function
    removals,            \* the running removal count (totalRemovals)
    pc,                  \* the position in the running function
    earliestStartIndex,  \* processRangeRemovals: offset of the matched start marker
    matchedStartMarker,  \* processRangeRemovals: the matched start marker
    earliestEndIndex,    \* processRangeRemovals: offset of the matched end marker
    matchedEndMarker,    \* processRangeRemovals: the matched end marker
    searchStart,         \* processCommentCleaning: the scan position
    fileContent,         \* the text of the file in the vault
    backups,             \* the texts of the backup files created, in order
    notices,             \* the notices shown, in order
    vaultLog,            \* the calls of the vault that succeeded, in order
    data,                \* the stored data of the plugin (loadData, saveData)
    saveCount            \* the calls of saveSettings

\* the state outside the text functions
vaultVars == <<fileContent, backups, notices, vaultLog, data, saveCount>>

vars == <<settings, content, processedContent, removals, pc, earliestStartIndex,
          matchedStartMarker, earliestEndIndex, matchedEndMarker, searchStart,
          fileContent, backups, notices, vaultLog, data, saveCount>>

-----------------------------------------------------------------------------
(* Bounds of the model.                                                    *)

MaxRangeLen == 5
MaxCommentLen == 6
MaxLinkTokens == 4
MaxLinkLen == 4
MaxPipeLen == 3
MaxSingleLen == 5
MaxListLen == 5
MaxTaskTokens == 5
MaxRunLen == 6
MaxKeptEmptyLines == 2
MaxBlankTokens == 4
MaxTotalLen == 4

-----------------------------------------------------------------------------
(* Strings.                                                                *)

Min(S) == CHOOSE i \in S : \A j \in S : i <= j

RECURSIVE StringsUpTo(_, _)
StringsUpTo(alphabet, n) ==
    IF n = 0 THEN {""}
    ELSE LET shorter == StringsUpTo(alphabet, n - 1)
         IN  shorter \cup {s \o c : s \in shorter, c \in alphabet}

\* String.prototype.substring(from, to) and substring(from)
Substring(text, from, to) == SubSeq(text, from + 1, to)
SubstringFrom(text, from) == SubSeq(text, from + 1, Len(text))

\* String.prototype.indexOf(pattern, from): the smallest offset >= from at
\* which pattern occurs, or -1.
IndexOf(text, pattern, from) ==
    IF pattern = "" THEN (IF from < Len(text) THEN from ELSE Len(text))
    ELSE LET at == {i \in from .. (Len(text) - Len(pattern)) :
                        SubSeq(text, i + 1, i + Len(pattern)) = pattern}
         IN  IF at = {} THEN -1 ELSE Min(at)

\* String.prototype.includes(pattern)
Includes(text, pattern) == IndexOf(text, pattern, 0) # -1

WhiteSpace == {" ", "\t", "\n", "\r"}

RECURSIVE TrimStart(_)
TrimStart(s) ==
    IF s # "" /\ SubSeq(s, 1, 1) \in WhiteSpace
    THEN TrimStart(SubSeq(s, 2, Len(s))) ELSE s

RECURSIVE TrimEnd(_)
TrimEnd(s) ==
    IF s # "" /\ SubSeq(s, Len(s), Len(s)) \in WhiteSpace
    THEN TrimEnd(SubSeq(s, 1, Len(s) - 1)) ELSE s

\* String.prototype.trim()
Trim(s) == TrimEnd(TrimStart(s))

\* a test that skips the empty marker only
IsBlankEmptyOnly(marker) == marker = ""

\* the test `!marker.trim()` that skips a marker
IsBlank(marker) == Trim(marker) = ""

\* String.prototype.split('\n'): the lines of a text, at least one
RECURSIVE Split(_)
Split(text) ==
    LET nl == IndexOf(text, "\n", 0)
    IN  IF nl = -1 THEN <<text>>
        ELSE <<Substring(text, 0, nl)>> \o Split(SubstringFrom(text, nl + 1))

\* Array.prototype.join('\n')
RECURSIVE Join(_)
Join(lines) ==
    IF lines = <<>> THEN ""
    ELSE IF Len(lines) = 1 THEN lines[1]
    ELSE lines[1] \o "\n" \o Join(Tail(lines))

-----------------------------------------------------------------------------
(* Settings.                                                               *)

DEFAULT_SETTINGS ==
    [ removalStrings           |-> <<"%% remove line %%", "rem-ln">>,
      rangeStartStrings        |-> <<"%% remove from here %%", "rm-from-here">>,
      rangeEndStrings          |-> <<"%% remove till here %%", "rm-till-here">>,
      cleanLinksStrings        |-> <<"%% clean me %%", "clean-ln">>,
      commentCleanerStrings    |-> <<"remove this comment", "rm-cmt">>,
      createBackup             |-> TRUE,
      backupFileNameFormat     |-> "_YYYY-MM-DD HHmmss",
      maxConsecutiveEmptyLines |-> 1,
      removeEmptyListItems     |-> FALSE,
      removeFinishedTasks      |-> FALSE,
      enableRangeRemoval       |-> TRUE,
      enableCommentCleaning    |-> TRUE,
      enableLinkCleaning       |-> TRUE,
      enableSingleLineRemoval  |-> TRUE,
      enableEmptyLineLimiting  |-> TRUE ]

-----------------------------------------------------------------------------
(* processRangeRemovals.                                                   *)

\* EarliestMarker with an equal offset replacing the marker found before
RECURSIVE EarliestMarkerLastOfTie(_, _, _, _)
EarliestMarkerLastOfTie(text, markers, from, found) ==
    IF markers = <<>> THEN found
    ELSE LET marker == Head(markers)
             index  == IndexOf(text, marker, from)
         IN  IF IsBlank(marker)
             THEN EarliestMarkerLastOfTie(text, Tail(markers), from, found)
             ELSE IF index # -1 /\ (found.index = -1 \/ index <= found.index)
             THEN EarliestMarkerLastOfTie(text, Tail(markers), from,
                                          [index |-> index, marker |-> marker])
             ELSE EarliestMarkerLastOfTie(text, Tail(markers), from, found)

\* One pass of a marker loop: the marker of `markers` with the smallest
\* offset at or after `from`, blank markers skipped; an equal offset does
\* not replace the marker found before.
RECURSIVE EarliestMarker(_, _, _, _)
EarliestMarker(text, markers, from, found) ==
    IF markers = <<>> THEN found
    ELSE LET marker == Head(markers)
             index  == IndexOf(text, marker, from)
         IN  IF IsBlank(marker) THEN EarliestMarker(text, Tail(markers), from, found)
             ELSE IF index # -1 /\ (found.index = -1 \/ index < found.index)
             THEN EarliestMarker(text, Tail(markers), from,
                                 [index |-> index, marker |-> marker])
             ELSE EarliestMarker(text, Tail(markers), from, found)

NotFound == [index |-> -1, marker |-> ""]

\* FindStartMarker looking for the first marker of the list only
FindStartMarkerFirstOnly(text, s) ==
    EarliestMarker(text,
                   IF s.rangeStartStrings = <<>> THEN <<>>
                   ELSE <<Head(s.rangeStartStrings)>>,
                   0, NotFound)

\* the loop over rangeStartStrings
FindStartMarker(text, s) == EarliestMarker(text, s.rangeStartStrings, 0, NotFound)

\* FindEndMarker searching from the first character of the start marker
FindEndMarkerFromStart(text, s, start) ==
    EarliestMarker(text, s.rangeEndStrings, start.index, NotFound)

\* the loop over rangeEndStrings, from the end of the matched start marker
FindEndMarker(text, s, start) ==
    EarliestMarker(text, s.rangeEndStrings, start.index + Len(start.marker), NotFound)

\* TruncateAtStart keeping the start marker
TruncateAfterStart(text, start) == Substring(text, 0, start.index + Len(start.marker))

\* the text left when no end marker follows the start marker
TruncateAtStart(text, start) == Substring(text, 0, start.index)

\* beforeStart + afterEnd
DeleteRange(text, start, end) ==
    Substring(text, 0, start.index) \o SubstringFrom(text, end.index + Len(end.marker))

\* the loop left after its first iteration
RangeLoopFirstRange(text, count, s) ==
    LET start == FindStartMarker(text, s)
        end   == FindEndMarker(text, s, start)
    IN  IF start.index = -1 THEN [content |-> text, removals |-> count]
        ELSE IF end.index = -1
        THEN [content |-> TruncateAtStart(text, start), removals |-> count + 1]
        ELSE [content |-> DeleteRange(text, start, end), removals |-> count + 1]

\* the whole loop, as the function result
RECURSIVE RangeLoop(_, _, _)
RangeLoop(text, count, s) ==
    LET start == FindStartMarker(text, s)
        end   == FindEndMarker(text, s, start)
    IN  IF start.index = -1 THEN [content |-> text, removals |-> count]
        ELSE IF end.index = -1
        THEN [content |-> TruncateAtStart(text, start), removals |-> count + 1]
        ELSE RangeLoop(DeleteRange(text, start, end), count + 1, s)

ProcessRangeRemovals(text, s) == RangeLoop(text, 0, s)

\* The loop, one iteration per step.
RangeBreakNoStart ==
    /\ pc = "rangeLoop"
    /\ LET start == FindStartMarker(processedContent, settings)
       IN  /\ start.index = -1
           /\ earliestStartIndex' = -1
           /\ matchedStartMarker' = ""
           /\ earliestEndIndex' = -1
           /\ matchedEndMarker' = ""
    /\ pc' = "rangeReturn"
    /\ UNCHANGED <<vaultVars, settings, content, processedContent, removals, searchStart>>

RangeTruncate ==
    /\ pc = "rangeLoop"
    /\ LET start == FindStartMarker(processedContent, settings)
           end   == FindEndMarker(processedContent, settings, start)
       IN  /\ start.index # -1
           /\ end.index = -1
           /\ earliestStartIndex' = start.index
           /\ matchedStartMarker' = start.marker
           /\ earliestEndIndex' = -1
           /\ matchedEndMarker' = ""
           /\ processedContent' = TruncateAtStart(processedContent, start)
    /\ removals' = removals + 1
    /\ pc' = "rangeReturn"
    /\ UNCHANGED <<vaultVars, settings, content, searchStart>>

RangeDelete ==
    /\ pc = "rangeLoop"
    /\ LET start == FindStartMarker(processedContent, settings)
           end   == FindEndMarker(processedContent, settings, start)
       IN  /\ start.index # -1
           /\ end.index # -1
           /\ earliestStartIndex' = start.index
           /\ matchedStartMarker' = start.marker
           /\ earliestEndIndex' = end.index
           /\ matchedEndMarker' = end.marker
           /\ processedContent' = DeleteRange(processedContent, start, end)
    /\ removals' = removals + 1
    /\ pc' = "rangeLoop"
    /\ UNCHANGED <<vaultVars, settings, content, searchStart>>

RangeAlphabet == {"s", "e", "x", " ", "\n"}

RangeTexts == StringsUpTo(RangeAlphabet, MaxRangeLen)

\* (rangeStartStrings, rangeEndStrings)
RangeMarkerLists ==
    { <<<<"s">>, <<"e">>>>,
      <<<<"ss">>, <<"ee">>>>,
      <<<<"s", "sx">>, <<"e", "ex">>>>,
      <<<<"sx", "s">>, <<"ex", "e">>>>,
      <<<<"se">>, <<"es">>>>,
      <<<<"s">>, <<"s">>>>,
      <<<<"", " ">>, <<"e">>>>,
      <<<<"s">>, <<" ", "">>>>,
      <<<<" ", "s">>, <<"", "e">>>>,
      <<<<>>, <<>>>> }

RangeConfigs ==
    { [DEFAULT_SETTINGS EXCEPT !.rangeStartStrings = m[1], !.rangeEndStrings = m[2]] :
        m \in RangeMarkerLists }

ReadmeRangeText ==
    "some text %% remove from here %%\nline to remove\n%% remove till here %% remaining text"

NoLocals ==
    /\ earliestStartIndex = -1
    /\ matchedStartMarker = ""
    /\ earliestEndIndex = -1
    /\ matchedEndMarker = ""
    /\ searchStart = 0

\* no stored data
NoData == [key \in {} |-> ""]

\* the text functions called on their own: no file, no notice, no data
NoVault ==
    /\ fileContent = ""
    /\ backups = <<>>
    /\ notices = <<>>
    /\ vaultLog = <<>>
    /\ data = NoData
    /\ saveCount = 0

InitRange ==
    /\ \/ content \in RangeTexts /\ settings \in RangeConfigs
       \/ content = ReadmeRangeText /\ settings = DEFAULT_SETTINGS
    /\ processedContent = content
    /\ removals = 0
    /\ pc = "rangeLoop"
    /\ NoLocals
    /\ NoVault

NextRange == RangeBreakNoStart \/ RangeTruncate \/ RangeDelete

SpecRange == InitRange /\ [][NextRange]_vars

\* start markers of which one is the beginning of another, and a start
\* marker that the text before and the text after a range can form
TieMarkerLists ==
    { <<<<"s", "se">>, <<"e">>>>,
      <<<<"se", "s">>, <<"e">>>>,
      <<<<"s", "sx">>, <<"e", "ex">>>>,
      <<<<"sx", "s">>, <<"ex", "e">>>>,
      <<<<"xs">>, <<"e">>>> }

InitTies ==
    /\ content \in RangeTexts
    /\ \E m \in TieMarkerLists :
           settings = [DEFAULT_SETTINGS EXCEPT !.rangeStartStrings = m[1],
                                               !.rangeEndStrings = m[2]]
    /\ processedContent = content
    /\ removals = 0
    /\ pc = "rangeLoop"
    /\ NoLocals
    /\ NoVault

SpecRangeTies == InitTies /\ [][NextRange]_vars

-----------------------------------------------------------------------------
(* processCommentCleaning.                                                 *)

\* the opening delimiter: the first %% at or after the scan position
CommentOpen(text, from) == IndexOf(text, "%%", from)

\* CommentClose taking the end of the text for a missing closing delimiter
CommentCloseOrEnd(text, startIndex) ==
    LET endIndex == IndexOf(text, "%%", startIndex + 2)
    IN  IF endIndex = -1 THEN Len(text) ELSE endIndex

\* the closing delimiter: the first %% after the opening delimiter
CommentClose(text, startIndex) == IndexOf(text, "%%", startIndex + 2)

\* the text strictly between the delimiters
CommentContent(text, startIndex, endIndex) == Substring(text, startIndex + 2, endIndex)

\* the loop over commentCleanerStrings, left at the first marker found
RECURSIVE ShouldRemoveComment(_, _)
ShouldRemoveComment(commentContent, markers) ==
    IF markers = <<>> THEN FALSE
    ELSE IF IsBlank(Head(markers)) THEN ShouldRemoveComment(commentContent, Tail(markers))
    ELSE IF Includes(commentContent, Head(markers)) THEN TRUE
    ELSE ShouldRemoveComment(commentContent, Tail(markers))

\* RemoveComment keeping the closing delimiter
RemoveCommentKeepClose(text, startIndex, endIndex) ==
    Substring(text, 0, startIndex) \o SubstringFrom(text, endIndex)

\* beforeComment + afterComment
RemoveComment(text, startIndex, endIndex) ==
    Substring(text, 0, startIndex) \o SubstringFrom(text, endIndex + 2)

\* the loop with the scan resumed, after a removal, where the closing
\* delimiter ended
RECURSIVE CommentLoopResumeAfterEnd(_, _, _, _)
CommentLoopResumeAfterEnd(text, count, from, s) ==
    LET startIndex == CommentOpen(text, from)
        endIndex   == CommentClose(text, startIndex)
    IN  IF ~(from < Len(text)) \/ startIndex = -1 \/ endIndex = -1
        THEN [content |-> text, removals |-> count]
        ELSE IF ShouldRemoveComment(CommentContent(text, startIndex, endIndex),
                                    s.commentCleanerStrings)
        THEN CommentLoopResumeAfterEnd(RemoveComment(text, startIndex, endIndex),
                                       count + 1, endIndex + 2, s)
        ELSE CommentLoopResumeAfterEnd(text, count, endIndex + 2, s)

\* the whole loop, as the function result
RECURSIVE CommentLoop(_, _, _, _)
CommentLoop(text, count, from, s) ==
    LET startIndex == CommentOpen(text, from)
        endIndex   == CommentClose(text, startIndex)
    IN  IF ~(from < Len(text)) \/ startIndex = -1 \/ endIndex = -1
        THEN [content |-> text, removals |-> count]
        ELSE IF ShouldRemoveComment(CommentContent(text, startIndex, endIndex),
                                    s.commentCleanerStrings)
        THEN CommentLoop(RemoveComment(text, startIndex, endIndex), count + 1, startIndex, s)
        ELSE CommentLoop(text, count, endIndex + 2, s)

ProcessCommentCleaning(text, s) == CommentLoop(text, 0, 0, s)

\* The loop, one iteration per step.
\* the loop condition fails
CommentExitAtEnd ==
    /\ pc = "commentLoop"
    /\ ~(searchStart < Len(processedContent))
    /\ pc' = "commentReturn"
    /\ UNCHANGED <<vaultVars, settings, content, processedContent, removals, earliestStartIndex,
                   matchedStartMarker, earliestEndIndex, matchedEndMarker, searchStart>>

\* no opening delimiter: break
CommentBreakNoOpen ==
    /\ pc = "commentLoop"
    /\ searchStart < Len(processedContent)
    /\ CommentOpen(processedContent, searchStart) = -1
    /\ pc' = "commentReturn"
    /\ UNCHANGED <<vaultVars, settings, content, processedContent, removals, earliestStartIndex,
                   matchedStartMarker, earliestEndIndex, matchedEndMarker, searchStart>>

\* no closing delimiter: break
CommentBreakNoClose ==
    /\ pc = "commentLoop"
    /\ searchStart < Len(processedContent)
    /\ LET startIndex == CommentOpen(processedContent, searchStart)
       IN  /\ startIndex # -1
           /\ CommentClose(processedContent, startIndex) = -1
    /\ pc' = "commentReturn"
    /\ UNCHANGED <<vaultVars, settings, content, processedContent, removals, earliestStartIndex,
                   matchedStartMarker, earliestEndIndex, matchedEndMarker, searchStart>>

CommentRemove ==
    /\ pc = "commentLoop"
    /\ searchStart < Len(processedContent)
    /\ LET startIndex == CommentOpen(processedContent, searchStart)
           endIndex   == CommentClose(processedContent, startIndex)
       IN  /\ startIndex # -1
           /\ endIndex # -1
           /\ ShouldRemoveComment(CommentContent(processedContent, startIndex, endIndex),
                                  settings.commentCleanerStrings)
           /\ processedContent' = RemoveComment(processedContent, startIndex, endIndex)
           /\ searchStart' = startIndex
    /\ removals' = removals + 1
    /\ pc' = "commentLoop"
    /\ UNCHANGED <<vaultVars, settings, content, earliestStartIndex, matchedStartMarker,
                   earliestEndIndex, matchedEndMarker>>

\* the iteration over a comment without a marker, with the scan position
\* left where it was
CommentSkipInPlace ==
    /\ pc = "commentLoop"
    /\ searchStart < Len(processedContent)
    /\ LET startIndex == CommentOpen(processedContent, searchStart)
           endIndex   == CommentClose(processedContent, startIndex)
       IN  /\ startIndex # -1
           /\ endIndex # -1
           /\ ~ShouldRemoveComment(CommentContent(processedContent, startIndex, endIndex),
                                   settings.commentCleanerStrings)
    /\ pc' = "commentLoop"
    /\ UNCHANGED <<vaultVars, settings, content, processedContent, removals, earliestStartIndex,
                   matchedStartMarker, earliestEndIndex, matchedEndMarker, searchStart>>

CommentSkip ==
    /\ pc = "commentLoop"
    /\ searchStart < Len(processedContent)
    /\ LET startIndex == CommentOpen(processedContent, searchStart)
           endIndex   == CommentClose(processedContent, startIndex)
       IN  /\ startIndex # -1
           /\ endIndex # -1
           /\ ~ShouldRemoveComment(CommentContent(processedContent, startIndex, endIndex),
                                   settings.commentCleanerStrings)
           /\ searchStart' = endIndex + 2
    /\ pc' = "commentLoop"
    /\ UNCHANGED <<vaultVars, settings, content, processedContent, removals, earliestStartIndex,
                   matchedStartMarker, earliestEndIndex, matchedEndMarker>>

\* texts are built from these pieces
CommentPieces == {"%%", "%", "m", "a"}

CommentTexts == StringsUpTo(CommentPieces, MaxCommentLen)

\* commentCleanerStrings
CommentMarkerLists ==
    { <<"m">>, <<"am", "m%">>, <<"", "m">>, <<" ", "">>, <<>> }

CommentConfigs ==
    { [DEFAULT_SETTINGS EXCEPT !.commentCleanerStrings = m] : m \in CommentMarkerLists }

ReadmeCommentText ==
    "This text %% this comment stays %% has comments %% remove this comment %%"

InitComment ==
    /\ \/ content \in CommentTexts /\ settings \in CommentConfigs
       \/ content = ReadmeCommentText /\ settings = DEFAULT_SETTINGS
    /\ processedContent = content
    /\ removals = 0
    /\ pc = "commentLoop"
    /\ NoLocals
    /\ NoVault

NextComment ==
    \/ CommentExitAtEnd
    \/ CommentBreakNoOpen
    \/ CommentBreakNoClose
    \/ CommentRemove
    \/ CommentSkip

SpecComment == InitComment /\ [][NextComment]_vars

-----------------------------------------------------------------------------
(* processLinkCleaning, convertLinksInLine, escapeRegExp.                  *)

\* the character at a 0-based offset, "" past the end
CharAt(text, i) == IF i >= 0 /\ i < Len(text) THEN SubSeq(text, i + 1, i + 1) ELSE ""

\* the length of the longest run of characters outside `stop` that begins
\* at offset `from`: a greedy negated character class [^...]+
RunLength(text, from, stop) ==
    IF from >= Len(text) THEN 0
    ELSE Min({k \in from .. Len(text) : k = Len(text) \/ CharAt(text, k) \in stop}) - from

NoMatch == [end |-> -1, name |-> ""]

\* the backtick of the replacement text, written as an apostrophe (a
\* string of this language cannot hold a backtick)
Backtick == "'"

\* InternalLinkAt taking the target where a display text is given
InternalLinkAtTarget(line, i) ==
    LET n == RunLength(line, i + 2, {"]", "|"})
        p == i + 2 + n
        k == RunLength(line, p + 1, {"]"})
        q == p + 1 + k
    IN  IF ~(CharAt(line, i) = "[" /\ CharAt(line, i + 1) = "[" /\ n >= 1) THEN NoMatch
        ELSE IF CharAt(line, p) = "|" /\ k >= 1
                  /\ CharAt(line, q) = "]" /\ CharAt(line, q + 1) = "]"
        THEN [end |-> q + 2, name |-> Substring(line, i + 2, p)]
        ELSE IF CharAt(line, p) = "]" /\ CharAt(line, p + 1) = "]"
        THEN [end |-> p + 2, name |-> Substring(line, i + 2, p)]
        ELSE NoMatch

\* the match of /\[\[([^\]|]+)(?:\|([^\]]+))?\]\]/ that begins at offset i:
\* the offset after it and displayText || link
InternalLinkAt(line, i) ==
    LET n == RunLength(line, i + 2, {"]", "|"})
        p == i + 2 + n
        k == RunLength(line, p + 1, {"]"})
        q == p + 1 + k
    IN  IF ~(CharAt(line, i) = "[" /\ CharAt(line, i + 1) = "[" /\ n >= 1) THEN NoMatch
        ELSE IF CharAt(line, p) = "|" /\ k >= 1
                  /\ CharAt(line, q) = "]" /\ CharAt(line, q + 1) = "]"
        THEN [end |-> q + 2, name |-> Substring(line, p + 1, q)]
        ELSE IF CharAt(line, p) = "]" /\ CharAt(line, p + 1) = "]"
        THEN [end |-> p + 2, name |-> Substring(line, i + 2, p)]
        ELSE NoMatch

\* the match of /\[([^\]]+)\]\([^)]+\)/ that begins at offset i: the offset
\* after it and linkText
ExternalLinkAt(line, i) ==
    LET n == RunLength(line, i + 1, {"]"})
        p == i + 1 + n
        k == RunLength(line, p + 2, {")"})
        q == p + 2 + k
    IN  IF CharAt(line, i) = "[" /\ n >= 1 /\ CharAt(line, p) = "]"
             /\ CharAt(line, p + 1) = "(" /\ k >= 1 /\ CharAt(line, q) = ")"
        THEN [end |-> q + 1, name |-> Substring(line, i + 1, p)]
        ELSE NoMatch

\* replace(/.../g, ...) for the internal links: matches are taken from left
\* to right, each search beginning after the match before it
RECURSIVE ReplaceInternalLinks(_, _)
ReplaceInternalLinks(line, i) ==
    IF i >= Len(line) THEN ""
    ELSE LET m == InternalLinkAt(line, i)
         IN  IF m.end # -1 THEN Backtick \o m.name \o Backtick \o ReplaceInternalLinks(line, m.end)
             ELSE CharAt(line, i) \o ReplaceInternalLinks(line, i + 1)

\* replace(/.../g, ...) for the external links
RECURSIVE ReplaceExternalLinks(_, _)
ReplaceExternalLinks(line, i) ==
    IF i >= Len(line) THEN ""
    ELSE LET m == ExternalLinkAt(line, i)
         IN  IF m.end # -1 THEN Backtick \o m.name \o Backtick \o ReplaceExternalLinks(line, m.end)
             ELSE CharAt(line, i) \o ReplaceExternalLinks(line, i + 1)

\* the characters of /[.*+?^${}()|[\]\\]/
RegExpSpecial == {".", "*", "+", "?", "^", "$", "{", "}", "(", ")", "|", "[", "]", "\\"}

\* escapeRegExp: a backslash before every special character
RECURSIVE EscapeRegExp(_)
EscapeRegExp(string) ==
    IF string = "" THEN ""
    ELSE LET c == SubSeq(string, 1, 1)
         IN  (IF c \in RegExpSpecial THEN "\\" \o c ELSE c)
                 \o EscapeRegExp(SubSeq(string, 2, Len(string)))

\* new RegExp(source) for a source of escaped and ordinary characters: the
\* string the pattern matches
RECURSIVE RegExpLiteral(_)
RegExpLiteral(source) ==
    IF source = "" THEN ""
    ELSE IF SubSeq(source, 1, 1) = "\\" /\ Len(source) >= 2
    THEN SubSeq(source, 2, 2) \o RegExpLiteral(SubSeq(source, 3, Len(source)))
    ELSE SubSeq(source, 1, 1) \o RegExpLiteral(SubSeq(source, 2, Len(source)))

\* replace(pattern, '') with the g flag, for a pattern matching the literal:
\* the occurrences found from left to right, none overlapping the one
\* before it, are deleted in one pass
RECURSIVE ReplaceAllWithEmpty(_, _)
ReplaceAllWithEmpty(line, literal) ==
    LET index == IndexOf(line, literal, 0)
    IN  IF literal = "" \/ index = -1 THEN line
        ELSE Substring(line, 0, index)
                 \o ReplaceAllWithEmpty(SubstringFrom(line, index + Len(literal)), literal)

\* the loop of convertLinksInLine over cleanLinksStrings
RECURSIVE RemoveMarkers(_, _)
RemoveMarkers(line, markers) ==
    IF markers = <<>> THEN line
    ELSE IF IsBlank(Head(markers)) THEN RemoveMarkers(line, Tail(markers))
    ELSE RemoveMarkers(
             ReplaceAllWithEmpty(line, RegExpLiteral(EscapeRegExp(Head(markers)))),
             Tail(markers))

ConvertLinksInLine(line, s) ==
    RemoveMarkers(ReplaceExternalLinks(ReplaceInternalLinks(line, 0), 0),
                  s.cleanLinksStrings)

\* ShouldCleanLine without the skip of blank markers
RECURSIVE ShouldCleanLineNoSkip(_, _)
ShouldCleanLineNoSkip(line, markers) ==
    IF markers = <<>> THEN FALSE
    ELSE IF Includes(line, Head(markers)) THEN TRUE
    ELSE ShouldCleanLineNoSkip(line, Tail(markers))

\* the loop of processLinkCleaning over cleanLinksStrings, left at the
\* first marker found
RECURSIVE ShouldCleanLine(_, _)
ShouldCleanLine(line, markers) ==
    IF markers = <<>> THEN FALSE
    ELSE IF IsBlank(Head(markers)) THEN ShouldCleanLine(line, Tail(markers))
    ELSE IF Includes(line, Head(markers)) THEN TRUE
    ELSE ShouldCleanLine(line, Tail(markers))

\* the loop over the lines: processedLines and removals after the lines
\* from k on
RECURSIVE LinkLines(_, _, _, _, _)
LinkLines(lines, k, processedLines, count, s) ==
    IF k > Len(lines) THEN [lines |-> processedLines, removals |-> count]
    ELSE IF ShouldCleanLine(lines[k], s.cleanLinksStrings)
    THEN LET cleanedLine == ConvertLinksInLine(lines[k], s)
         IN  LinkLines(lines, k + 1, Append(processedLines, cleanedLine),
                       IF cleanedLine # lines[k] THEN count + 1 ELSE count, s)
    ELSE LinkLines(lines, k + 1, Append(processedLines, lines[k]), count, s)

\* processLinkCleaning with the count raised for every line of the text
ProcessLinkCleaningCountingLines(text, s) ==
    LET done == LinkLines(Split(text), 1, <<>>, 0, s)
    IN  [content |-> Join(done.lines), removals |-> Len(done.lines)]

ProcessLinkCleaning(text, s) ==
    LET done == LinkLines(Split(text), 1, <<>>, 0, s)
    IN  [content |-> Join(done.lines), removals |-> done.removals]

\* processLinkCleaning, called and returning
LinkCleaning ==
    /\ pc = "linkCall"
    /\ LET linkResult == ProcessLinkCleaning(content, settings)
       IN  /\ processedContent' = linkResult.content
           /\ removals' = linkResult.removals
    /\ pc' = "linkReturn"
    /\ UNCHANGED <<vaultVars, settings, content, earliestStartIndex, matchedStartMarker,
                   earliestEndIndex, matchedEndMarker, searchStart>>

\* texts with well-formed links are built from these pieces
LinkPieces == {"[[a]]", "[[a|b]]", "[b](u)", "M", "x", "]", "\n"}

LinkTexts == StringsUpTo(LinkPieces, MaxLinkTokens)

\* cleanLinksStrings for the texts with links
LinkMarkerLists == { <<"M">>, <<"x", "M">>, <<"", " ">>, <<"[[a]]", "M">> }

\* texts for the deletion of the markers
MarkerTexts == StringsUpTo({"a", "b", "|", "\n"}, MaxLinkLen)

\* cleanLinksStrings for the deletion of the markers
DeletedMarkerLists == { <<"ab">>, <<"a|b">>, <<"|", "ab">>, <<"aa", "">>, <<"ab", "ba">> }

ReadmeLinkText ==
    "Check [[My Note]] and [Google](https://google.com) %% clean me %%\n"
        \o "Another line with [[Another Note|Display]] clean-ln here\n"
        \o "Normal line with [[Keep Link]] stays"

InitLink ==
    /\ \/ /\ content \in LinkTexts
          /\ \E m \in LinkMarkerLists :
                 settings = [DEFAULT_SETTINGS EXCEPT !.cleanLinksStrings = m]
       \/ /\ content \in MarkerTexts
          /\ \E m \in DeletedMarkerLists :
                 settings = [DEFAULT_SETTINGS EXCEPT !.cleanLinksStrings = m]
       \/ content = ReadmeLinkText /\ settings = DEFAULT_SETTINGS
    /\ processedContent = content
    /\ removals = 0
    /\ pc = "linkCall"
    /\ NoLocals
    /\ NoVault

NextLink == LinkCleaning

SpecLink == InitLink /\ [][NextLink]_vars

-----------------------------------------------------------------------------
(* The line filters and processEmptyLineLimiting.                          *)

\* lines.filter(keep), for a set of the indexes to keep
RECURSIVE FilterLines(_, _, _)
FilterLines(lines, k, keep) ==
    IF k > Len(lines) THEN <<>>
    ELSE (IF k \in keep THEN <<lines[k]>> ELSE <<>>) \o FilterLines(lines, k + 1, keep)

\* the loop of processSingleLineRemovals left after the first marker that
\* is not blank
RECURSIVE SingleLineLoopFirstMarker(_, _, _)
SingleLineLoopFirstMarker(cleanedLines, markers, totalRemovals) ==
    IF markers = <<>> THEN [lines |-> cleanedLines, removals |-> totalRemovals]
    ELSE IF IsBlank(Head(markers))
    THEN SingleLineLoopFirstMarker(cleanedLines, Tail(markers), totalRemovals)
    ELSE LET hit == {k \in DOMAIN cleanedLines : Includes(cleanedLines[k], Head(markers))}
         IN  [lines    |-> FilterLines(cleanedLines, 1, DOMAIN cleanedLines \ hit),
              removals |-> totalRemovals + Cardinality(hit)]

\* the loop of processSingleLineRemovals over removalStrings
RECURSIVE SingleLineLoop(_, _, _)
SingleLineLoop(cleanedLines, markers, totalRemovals) ==
    IF markers = <<>> THEN [lines |-> cleanedLines, removals |-> totalRemovals]
    ELSE IF IsBlank(Head(markers))
    THEN SingleLineLoop(cleanedLines, Tail(markers), totalRemovals)
    ELSE LET hit == {k \in DOMAIN cleanedLines : Includes(cleanedLines[k], Head(markers))}
         IN  SingleLineLoop(FilterLines(cleanedLines, 1, DOMAIN cleanedLines \ hit),
                            Tail(markers), totalRemovals + Cardinality(hit))

\* processSingleLineRemovals with every marker counted on the lines of the
\* text given, not on the lines the markers before it left
ProcessSingleLineRemovalsCountingEachMarker(text, s) ==
    LET lines == Split(text)
        done  == SingleLineLoop(lines, s.removalStrings, 0)
    IN  [content  |-> Join(done.lines),
         removals |-> Cardinality({h \in (DOMAIN lines) \X (DOMAIN s.removalStrings) :
                                      /\ ~IsBlank(s.removalStrings[h[2]])
                                      /\ Includes(lines[h[1]], s.removalStrings[h[2]])})]

ProcessSingleLineRemovals(text, s) ==
    LET done == SingleLineLoop(Split(text), s.removalStrings, 0)
    IN  [content |-> Join(done.lines), removals |-> done.removals]

\* the characters the dot of a regular expression does not match
LineTerminators == {"\n", "\r"}

\* /^-\s*(\[.*\])?$/.test(trimmedLine)
IsEmptyListItem(trimmedLine) ==
    /\ CharAt(trimmedLine, 0) = "-"
    /\ LET from == 1 + RunLength(trimmedLine, 1, {CharAt(trimmedLine, j) :
                                     j \in 0 .. Len(trimmedLine) - 1} \ WhiteSpace)
           rest == SubstringFrom(trimmedLine, from)
       IN  \/ rest = ""
           \/ /\ Len(rest) >= 2
              /\ CharAt(rest, 0) = "["
              /\ CharAt(rest, Len(rest) - 1) = "]"
              /\ \A j \in 0 .. Len(rest) - 1 : CharAt(rest, j) \notin LineTerminators

\* /^-\s*\[x\]/.test(trimmedLine), without the flag i
IsFinishedTaskLowerCase(trimmedLine) ==
    /\ CharAt(trimmedLine, 0) = "-"
    /\ LET from == 1 + RunLength(trimmedLine, 1, {CharAt(trimmedLine, j) :
                                     j \in 0 .. Len(trimmedLine) - 1} \ WhiteSpace)
       IN  /\ CharAt(trimmedLine, from) = "["
           /\ CharAt(trimmedLine, from + 1) = "x"
           /\ CharAt(trimmedLine, from + 2) = "]"

\* /^-\s*\[x\]/i.test(trimmedLine)
IsFinishedTask(trimmedLine) ==
    /\ CharAt(trimmedLine, 0) = "-"
    /\ LET from == 1 + RunLength(trimmedLine, 1, {CharAt(trimmedLine, j) :
                                     j \in 0 .. Len(trimmedLine) - 1} \ WhiteSpace)
       IN  /\ CharAt(trimmedLine, from) = "["
           /\ CharAt(trimmedLine, from + 1) \in {"x", "X"}
           /\ CharAt(trimmedLine, from + 2) = "]"

ProcessEmptyListItemRemoval(text) ==
    LET lines == Split(text)
        hit   == {k \in DOMAIN lines : IsEmptyListItem(Trim(lines[k]))}
    IN  [content  |-> Join(FilterLines(lines, 1, DOMAIN lines \ hit)),
         removals |-> Cardinality(hit)]

\* processFinishedTasksRemoval leaving the loop after its first removal
ProcessFinishedTasksRemovalFirstTask(text) ==
    LET lines == Split(text)
        hit   == {k \in DOMAIN lines : IsFinishedTask(Trim(lines[k]))}
        first == {k \in hit : \A j \in hit : k <= j}
    IN  [content  |-> Join(FilterLines(lines, 1, DOMAIN lines \ first)),
         removals |-> Cardinality(first)]

ProcessFinishedTasksRemoval(text) ==
    LET lines == Split(text)
        hit   == {k \in DOMAIN lines : IsFinishedTask(Trim(lines[k]))}
    IN  [content  |-> Join(FilterLines(lines, 1, DOMAIN lines \ hit)),
         removals |-> Cardinality(hit)]

\* the loop of processEmptyLineLimiting over the lines
RECURSIVE EmptyLineLoop(_, _, _, _, _, _)
EmptyLineLoop(lines, k, processedLines, consecutiveEmptyCount, count, maxConsecutive) ==
    IF k > Len(lines) THEN [lines |-> processedLines, removals |-> count]
    ELSE IF Trim(lines[k]) = ""
    THEN IF consecutiveEmptyCount + 1 <= maxConsecutive
         THEN EmptyLineLoop(lines, k + 1, Append(processedLines, lines[k]),
                            consecutiveEmptyCount + 1, count, maxConsecutive)
         ELSE EmptyLineLoop(lines, k + 1, processedLines,
                            consecutiveEmptyCount + 1, count + 1, maxConsecutive)
    ELSE EmptyLineLoop(lines, k + 1, Append(processedLines, lines[k]),
                       0, count, maxConsecutive)

\* processEmptyLineLimiting keeping one empty line more than configured
ProcessEmptyLineLimitingOneMore(text, s) ==
    LET done == EmptyLineLoop(Split(text), 1, <<>>, 0, 0, s.maxConsecutiveEmptyLines + 1)
    IN  [content |-> Join(done.lines), removals |-> done.removals]

ProcessEmptyLineLimiting(text, s) ==
    LET done == EmptyLineLoop(Split(text), 1, <<>>, 0, 0, s.maxConsecutiveEmptyLines)
    IN  [content |-> Join(done.lines), removals |-> done.removals]

\* processSingleLineRemovals, called and returning
SingleLineRemovals ==
    /\ pc = "singleCall"
    /\ LET singleLineResult == ProcessSingleLineRemovals(content, settings)
       IN  /\ processedContent' = singleLineResult.content
           /\ removals' = singleLineResult.removals
    /\ pc' = "singleReturn"
    /\ UNCHANGED <<vaultVars, settings, content, earliestStartIndex, matchedStartMarker,
                   earliestEndIndex, matchedEndMarker, searchStart>>

\* processEmptyListItemRemoval, called and returning
EmptyListItemRemoval ==
    /\ pc = "emptyListCall"
    /\ LET emptyListResult == ProcessEmptyListItemRemoval(content)
       IN  /\ processedContent' = emptyListResult.content
           /\ removals' = emptyListResult.removals
    /\ pc' = "emptyListReturn"
    /\ UNCHANGED <<vaultVars, settings, content, earliestStartIndex, matchedStartMarker,
                   earliestEndIndex, matchedEndMarker, searchStart>>

\* processFinishedTasksRemoval, called and returning
FinishedTasksRemoval ==
    /\ pc = "finishedCall"
    /\ LET finishedTasksResult == ProcessFinishedTasksRemoval(content)
       IN  /\ processedContent' = finishedTasksResult.content
           /\ removals' = finishedTasksResult.removals
    /\ pc' = "finishedReturn"
    /\ UNCHANGED <<vaultVars, settings, content, earliestStartIndex, matchedStartMarker,
                   earliestEndIndex, matchedEndMarker, searchStart>>

\* processEmptyLineLimiting, called and returning
EmptyLineLimiting ==
    /\ pc = "emptyLinesCall"
    /\ LET emptyLineResult == ProcessEmptyLineLimiting(content, settings)
       IN  /\ processedContent' = emptyLineResult.content
           /\ removals' = emptyLineResult.removals
    /\ pc' = "emptyLinesReturn"
    /\ UNCHANGED <<vaultVars, settings, content, earliestStartIndex, matchedStartMarker,
                   earliestEndIndex, matchedEndMarker, searchStart>>

\* texts for the single line removal
SingleAlphabet == {"R", "Q", "a", "\n"}

SingleTexts == StringsUpTo(SingleAlphabet, MaxSingleLen)

\* removalStrings for these texts
SingleMarkerLists ==
    { <<"R">>, <<"R", "Q">>, <<"Q", "R">>, <<"", "RQ">>, <<" ", "aR", "R">> }

ReadmeSingleText ==
    "This line stays\n"
        \o "%% remove line %% This entire line is removed\n"
        \o "This line also stays\n"
        \o "rem-ln Another line to remove\n"
        \o "Final line stays"

\* texts of list items
ListTexts == StringsUpTo({"-", " ", "[", "]", "x", "\n"}, MaxListLen)

ReadmeListText ==
    "Task list:\n- First task\n- \n- [ ]\n- [x]\n- Second task\n- [ ] Third task"

\* texts of tasks are built from these pieces
TaskPieces == {"-", " ", "[x]", "[X]", "[ ]", "[x", "\n"}

TaskTexts == StringsUpTo(TaskPieces, MaxTaskTokens)

\* the example of the usage tab
UsageTasksText ==
    "My tasks:\n- [ ] Todo item\n- [x] Completed task\n"
        \o "- [X] Another completed task\n- [ ] Still pending\n- [x] Done with this one"

\* texts with runs of empty lines
RunAlphabet == {"a", " ", "\n"}

RunTexts == StringsUpTo(RunAlphabet, MaxRunLen)

ReadmeRunText ==
    "First paragraph\n\n\n\nSecond paragraph\n\n\nThird paragraph"

InitLines ==
    /\ \/ /\ pc = "singleCall"
          /\ \/ /\ content \in SingleTexts
                /\ \E m \in SingleMarkerLists :
                       settings = [DEFAULT_SETTINGS EXCEPT !.removalStrings = m]
             \/ content = ReadmeSingleText /\ settings = DEFAULT_SETTINGS
       \/ /\ pc = "emptyListCall"
          /\ content \in ListTexts \cup {ReadmeListText}
          /\ settings = [DEFAULT_SETTINGS EXCEPT !.removeEmptyListItems = TRUE]
       \/ /\ pc = "finishedCall"
          /\ content \in TaskTexts \cup {UsageTasksText}
          /\ settings = [DEFAULT_SETTINGS EXCEPT !.removeFinishedTasks = TRUE]
       \/ /\ pc = "emptyLinesCall"
          /\ \/ /\ content \in RunTexts
                /\ \E n \in 0 .. MaxKeptEmptyLines :
                       settings = [DEFAULT_SETTINGS EXCEPT !.maxConsecutiveEmptyLines = n]
             \/ content = ReadmeRunText /\ settings = DEFAULT_SETTINGS
    /\ processedContent = content
    /\ removals = 0
    /\ NoLocals
    /\ NoVault

NextLines ==
    \/ SingleLineRemovals
    \/ EmptyListItemRemoval
    \/ FinishedTasksRemoval
    \/ EmptyLineLimiting

SpecLines == InitLines /\ [][NextLines]_vars

-----------------------------------------------------------------------------
(* The marker stages called on their own, once and on their own output.    *)

\* processRangeRemovals, called and returning
RangeRemovals ==
    /\ pc = "rangeCall"
    /\ LET rangeResult == ProcessRangeRemovals(content, settings)
       IN  /\ processedContent' = rangeResult.content
           /\ removals' = rangeResult.removals
    /\ pc' = "rangeReturn"
    /\ UNCHANGED <<vaultVars, settings, content, earliestStartIndex, matchedStartMarker,
                   earliestEndIndex, matchedEndMarker, searchStart>>

\* processCommentCleaning, called and returning
CommentCleaning ==
    /\ pc = "commentCall"
    /\ LET commentResult == ProcessCommentCleaning(content, settings)
       IN  /\ processedContent' = commentResult.content
           /\ removals' = commentResult.removals
    /\ pc' = "commentReturn"
    /\ UNCHANGED <<vaultVars, settings, content, earliestStartIndex, matchedStartMarker,
                   earliestEndIndex, matchedEndMarker, searchStart>>

\* processRangeRemovals, called with the text it returned
RangeRemovalsAgain ==
    /\ pc = "rangeReturn"
    /\ LET rangeResult == ProcessRangeRemovals(processedContent, settings)
       IN  /\ processedContent' = rangeResult.content
           /\ removals' = rangeResult.removals
    /\ pc' = "rangeAgain"
    /\ UNCHANGED <<vaultVars, settings, content, earliestStartIndex, matchedStartMarker,
                   earliestEndIndex, matchedEndMarker, searchStart>>

\* processCommentCleaning, called with the text it returned
CommentCleaningAgain ==
    /\ pc = "commentReturn"
    /\ LET commentResult == ProcessCommentCleaning(processedContent, settings)
       IN  /\ processedContent' = commentResult.content
           /\ removals' = commentResult.removals
    /\ pc' = "commentAgain"
    /\ UNCHANGED <<vaultVars, settings, content, earliestStartIndex, matchedStartMarker,
                   earliestEndIndex, matchedEndMarker, searchStart>>

\* processLinkCleaning, called with the text it returned
LinkCleaningAgain ==
    /\ pc = "linkReturn"
    /\ LET linkResult == ProcessLinkCleaning(processedContent, settings)
       IN  /\ processedContent' = linkResult.content
           /\ removals' = linkResult.removals
    /\ pc' = "linkAgain"
    /\ UNCHANGED <<vaultVars, settings, content, earliestStartIndex, matchedStartMarker,
                   earliestEndIndex, matchedEndMarker, searchStart>>

\* processSingleLineRemovals, called with the text it returned
SingleLineRemovalsAgain ==
    /\ pc = "singleReturn"
    /\ LET singleLineResult == ProcessSingleLineRemovals(processedContent, settings)
       IN  /\ processedContent' = singleLineResult.content
           /\ removals' = singleLineResult.removals
    /\ pc' = "singleAgain"
    /\ UNCHANGED <<vaultVars, settings, content, earliestStartIndex, matchedStartMarker,
                   earliestEndIndex, matchedEndMarker, searchStart>>

\* processEmptyListItemRemoval, called with the text it returned
EmptyListItemRemovalAgain ==
    /\ pc = "emptyListReturn"
    /\ LET emptyListResult == ProcessEmptyListItemRemoval(processedContent)
       IN  /\ processedContent' = emptyListResult.content
           /\ removals' = emptyListResult.removals
    /\ pc' = "emptyListAgain"
    /\ UNCHANGED <<vaultVars, settings, content, earliestStartIndex, matchedStartMarker,
                   earliestEndIndex, matchedEndMarker, searchStart>>

\* processFinishedTasksRemoval, called with the text it returned
FinishedTasksRemovalAgain ==
    /\ pc = "finishedReturn"
    /\ LET finishedTasksResult == ProcessFinishedTasksRemoval(processedContent)
       IN  /\ processedContent' = finishedTasksResult.content
           /\ removals' = finishedTasksResult.removals
    /\ pc' = "finishedAgain"
    /\ UNCHANGED <<vaultVars, settings, content, earliestStartIndex, matchedStartMarker,
                   earliestEndIndex, matchedEndMarker, searchStart>>

\* processEmptyLineLimiting, called with the text it returned
EmptyLineLimitingAgain ==
    /\ pc = "emptyLinesReturn"
    /\ LET emptyLineResult == ProcessEmptyLineLimiting(processedContent, settings)
       IN  /\ processedContent' = emptyLineResult.content
           /\ removals' = emptyLineResult.removals
    /\ pc' = "emptyLinesAgain"
    /\ UNCHANGED <<vaultVars, settings, content, earliestStartIndex, matchedStartMarker,
                   earliestEndIndex, matchedEndMarker, searchStart>>

NextLinesTwice ==
    \/ NextLines
    \/ SingleLineRemovalsAgain
    \/ EmptyListItemRemovalAgain
    \/ FinishedTasksRemovalAgain
    \/ EmptyLineLimitingAgain

SpecLinesTwice == InitLines /\ [][NextLinesTwice]_vars

InitRangeTwice ==
    /\ \/ content \in RangeTexts /\ settings \in RangeConfigs
       \/ content = ReadmeRangeText /\ settings = DEFAULT_SETTINGS
    /\ processedContent = content
    /\ removals = 0
    /\ pc = "rangeCall"
    /\ NoLocals
    /\ NoVault

NextRangeTwice == RangeRemovals \/ RangeRemovalsAgain

SpecRangeTwice == InitRangeTwice /\ [][NextRangeTwice]_vars

InitCommentTwice ==
    /\ \/ content \in CommentTexts /\ settings \in CommentConfigs
       \/ content = ReadmeCommentText /\ settings = DEFAULT_SETTINGS
    /\ processedContent = content
    /\ removals = 0
    /\ pc = "commentCall"
    /\ NoLocals
    /\ NoVault

NextCommentTwice == CommentCleaning \/ CommentCleaningAgain

SpecCommentTwice == InitCommentTwice /\ [][NextCommentTwice]_vars

NextLinkTwice == LinkCleaning \/ LinkCleaningAgain

SpecLinkTwice == InitLink /\ [][NextLinkTwice]_vars

\* marker lists with no marker that is not blank
BlankMarkerLists == { <<>>, <<"">>, <<" ">>, <<"", " \t">>, <<"\n", " ">> }

\* the settings with every marker list of the four marker stages blank
BlankConfigs ==
    { [DEFAULT_SETTINGS EXCEPT !.rangeStartStrings     = m,
                               !.rangeEndStrings       = m,
                               !.commentCleanerStrings = m,
                               !.cleanLinksStrings     = m,
                               !.removalStrings        = m] : m \in BlankMarkerLists }

\* texts with white space, comments, links and lines
BlankTexts == StringsUpTo({" ", "%% %%", "[[a]]", "a", "\n"}, MaxBlankTokens)

InitBlank ==
    /\ content \in BlankTexts
    /\ settings \in BlankConfigs
    /\ processedContent = content
    /\ removals = 0
    /\ pc \in {"rangeCall", "commentCall", "linkCall", "singleCall"}
    /\ NoLocals
    /\ NoVault

NextBlank ==
    \/ RangeRemovals
    \/ CommentCleaning
    \/ LinkCleaning
    \/ SingleLineRemovals

SpecBlank == InitBlank /\ [][NextBlank]_vars

-----------------------------------------------------------------------------
(* processContent.                                                         *)

\* PipelineOrder with the comment cleaning before the range removal
PipelineOrderCommentFirst ==
    <<"comment", "range", "link", "single", "emptyList", "finished", "emptyLines", "return">>

\* the order of the stages in processContent, then the return
PipelineOrder ==
    <<"range", "comment", "link", "single", "emptyList", "finished", "emptyLines", "return">>

\* the position after a stage
StageAfter(stage) ==
    PipelineOrder[(CHOOSE k \in DOMAIN PipelineOrder : PipelineOrder[k] = stage) + 1]

\* RunStage without the test of the enable flag
RunStageAlways(enabled, text, count, result) ==
    [content |-> result.content, removals |-> count + result.removals]

\* RunStage taking the text of a stage without its count
RunStageNotCounting(enabled, text, count, result) ==
    IF enabled
    THEN [content |-> result.content, removals |-> count]
    ELSE [content |-> text, removals |-> count]

\* if (enabled) { processedContent = result.content; totalRemovals += result.removals }
RunStage(enabled, text, count, result) ==
    IF enabled
    THEN [content |-> result.content, removals |-> count + result.removals]
    ELSE [content |-> text, removals |-> count]

\* a stage of processContent: the running text and count after it
Stage(stage, enabled, result) ==
    /\ pc = stage
    /\ LET after == RunStage(enabled, processedContent, removals, result)
       IN  /\ processedContent' = after.content
           /\ removals' = after.removals
    /\ pc' = StageAfter(stage)
    /\ UNCHANGED <<vaultVars, settings, content, earliestStartIndex, matchedStartMarker,
                   earliestEndIndex, matchedEndMarker, searchStart>>

RangeStage ==
    Stage("range", settings.enableRangeRemoval,
          ProcessRangeRemovals(processedContent, settings))

CommentStage ==
    Stage("comment", settings.enableCommentCleaning,
          ProcessCommentCleaning(processedContent, settings))

LinkStage ==
    Stage("link", settings.enableLinkCleaning,
          ProcessLinkCleaning(processedContent, settings))

SingleLineStage ==
    Stage("single", settings.enableSingleLineRemoval,
          ProcessSingleLineRemovals(processedContent, settings))

EmptyListStage ==
    Stage("emptyList", settings.removeEmptyListItems,
          ProcessEmptyListItemRemoval(processedContent))

FinishedTasksStage ==
    Stage("finished", settings.removeFinishedTasks,
          ProcessFinishedTasksRemoval(processedContent))

EmptyLinesStage ==
    Stage("emptyLines", settings.enableEmptyLineLimiting,
          ProcessEmptyLineLimiting(processedContent, settings))

\* the seven enable flags, in the order of the stages
FlagNames ==
    <<"enableRangeRemoval", "enableCommentCleaning", "enableLinkCleaning",
      "enableSingleLineRemoval", "removeEmptyListItems", "removeFinishedTasks",
      "enableEmptyLineLimiting">>

\* settings with exactly the flags of a set on
WithFlags(s, on) ==
    [f \in DOMAIN s |->
        IF \E k \in DOMAIN FlagNames : FlagNames[k] = f THEN f \in on ELSE s[f]]

AllFlags == {FlagNames[k] : k \in DOMAIN FlagNames}

\* all on, all off, one on, one off
FlagSets ==
    {AllFlags, {}} \cup {{f} : f \in AllFlags} \cup {AllFlags \ {f} : f \in AllFlags}

\* markers of one character
ShortMarkers ==
    [DEFAULT_SETTINGS EXCEPT
        !.rangeStartStrings = <<"S">>, !.rangeEndStrings = <<"E">>,
        !.commentCleanerStrings = <<"c">>, !.cleanLinksStrings = <<"L">>,
        !.removalStrings = <<"R">>]

\* texts are built from these pieces
PipelinePieces == {"S", "E", "%%c%%", "L[[a]]", "R", "-[x]", "\n"}

PipelineTexts == StringsUpTo(PipelinePieces, MaxPipeLen)

\* a text with a marked comment and a marked line inside a range, a link
\* to clean, a finished task, an empty list item and a run of empty lines
PipelineExample ==
    "intro rm-from-here\n%% rm-cmt %%\nrem-ln gone\nrm-till-here outro\n"
        \o "see [[Note]] clean-ln\n\n\n\n- [x]\n- \nend"

Init ==
    /\ \/ /\ content \in PipelineTexts
          /\ \E on \in FlagSets, max \in {0, 1} :
                 settings = [WithFlags(ShortMarkers, on) EXCEPT
                                !.maxConsecutiveEmptyLines = max]
       \/ /\ content = PipelineExample
          /\ \E on \in FlagSets : settings = WithFlags(DEFAULT_SETTINGS, on)
    /\ processedContent = content
    /\ removals = 0
    /\ pc = "range"
    /\ NoLocals
    /\ NoVault

Next ==
    \/ RangeStage
    \/ CommentStage
    \/ LinkStage
    \/ SingleLineStage
    \/ EmptyListStage
    \/ FinishedTasksStage
    \/ EmptyLinesStage

Spec == Init /\ [][Next]_vars

-----------------------------------------------------------------------------
(* processContent with the loops of processRangeRemovals and of            *)
(* processCommentCleaning run one iteration per step.                      *)

\* if (this.settings.enableRangeRemoval): processRangeRemovals is entered
RangeEnter ==
    /\ pc = "range"
    /\ pc' = IF settings.enableRangeRemoval THEN "rangeLoop" ELSE "comment"
    /\ UNCHANGED <<vaultVars, settings, content, processedContent, removals,
                   earliestStartIndex, matchedStartMarker, earliestEndIndex,
                   matchedEndMarker, searchStart>>

\* processRangeRemovals has returned: its text and count are taken
RangeLeave ==
    /\ pc = "rangeReturn"
    /\ pc' = "comment"
    /\ UNCHANGED <<vaultVars, settings, content, processedContent, removals,
                   earliestStartIndex, matchedStartMarker, earliestEndIndex,
                   matchedEndMarker, searchStart>>

\* if (this.settings.enableCommentCleaning): processCommentCleaning is
\* entered, with searchStart = 0
CommentEnter ==
    /\ pc = "comment"
    /\ pc' = IF settings.enableCommentCleaning THEN "commentLoop" ELSE "link"
    /\ searchStart' = 0
    /\ UNCHANGED <<vaultVars, settings, content, processedContent, removals,
                   earliestStartIndex, matchedStartMarker, earliestEndIndex,
                   matchedEndMarker>>

\* processCommentCleaning has returned: its text and count are taken
CommentLeave ==
    /\ pc = "commentReturn"
    /\ pc' = "link"
    /\ UNCHANGED <<vaultVars, settings, content, processedContent, removals,
                   earliestStartIndex, matchedStartMarker, earliestEndIndex,
                   matchedEndMarker, searchStart>>

\* texts with unterminated, nested and overlapping markers
TotalTexts == StringsUpTo({"S", "E", "%%", "c", "\n"}, MaxTotalLen)

\* markers of one character; one marker to start and to end a range;
\* markers that overlap, one of them a % in a comment; all stages off
TotalConfigs ==
    { [ShortMarkers EXCEPT !.removeEmptyListItems = TRUE, !.removeFinishedTasks = TRUE],
      [ShortMarkers EXCEPT !.rangeEndStrings = <<"S">>, !.maxConsecutiveEmptyLines = 0],
      [ShortMarkers EXCEPT !.rangeStartStrings = <<"SE", "S">>,
                           !.rangeEndStrings = <<"E", "ES">>,
                           !.commentCleanerStrings = <<"", "%", "c">>],
      WithFlags(ShortMarkers, {}) }

InitTotal ==
    /\ content \in TotalTexts
    /\ settings \in TotalConfigs
    /\ processedContent = content
    /\ removals = 0
    /\ pc = "range"
    /\ NoLocals
    /\ NoVault

NextTotal ==
    \/ RangeEnter
    \/ RangeBreakNoStart
    \/ RangeTruncate
    \/ RangeDelete
    \/ RangeLeave
    \/ CommentEnter
    \/ CommentExitAtEnd
    \/ CommentBreakNoOpen
    \/ CommentBreakNoClose
    \/ CommentRemove
    \/ CommentSkip
    \/ CommentLeave
    \/ LinkStage
    \/ SingleLineStage
    \/ EmptyListStage
    \/ FinishedTasksStage
    \/ EmptyLinesStage

\* the steps of the two loops of processContent
LoopSteps ==
    \/ RangeEnter
    \/ RangeBreakNoStart
    \/ RangeTruncate
    \/ RangeDelete
    \/ RangeLeave
    \/ CommentEnter
    \/ CommentExitAtEnd
    \/ CommentBreakNoOpen
    \/ CommentBreakNoClose
    \/ CommentRemove
    \/ CommentSkip
    \/ CommentLeave

\* the five stages that are one pass over the lines
LineStages ==
    \/ LinkStage
    \/ SingleLineStage
    \/ EmptyListStage
    \/ FinishedTasksStage
    \/ EmptyLinesStage

\* the function runs on: a step that can be taken is taken.  The second
\* condition is WF_vars(LineStages): a line stage moves pc on, so it is
\* enabled exactly when pc stands in front of one of the five.
SpecTotal ==
    /\ InitTotal
    /\ [][NextTotal]_vars
    /\ WF_vars(LoopSteps)
    /\ \/ []<>(pc \notin {"link", "single", "emptyList", "finished", "emptyLines"})
       \/ []<><<LineStages>>_vars

-----------------------------------------------------------------------------
(* cleanFile and createBackup.  Every call of the vault succeeds or throws. *)

\* where an error thrown in createBackup, with the error of a call of the
\* vault left to the catch of cleanFile
CreateBackupRethrows == "fileCatch"

\* where an error thrown in the try block of createBackup goes
CreateBackupCatch == "backupCatch"

\* where an error goes that no try block of cleanFile catches
CleanFileRejects == "fileRejected"

\* where an error thrown in the try block of cleanFile goes
CleanFileCatch == "fileCatch"

\* createBackup called with the cleaned text
BackupOfResult(read, result) == result

\* the text createBackup is called with: createBackup(file, content)
BackupArgument(read, result) == read

\* content = await this.app.vault.read(file), then processContent is
\* entered with the text read
FileRead ==
    /\ pc = "fileRead"
    /\ \/ /\ content' = fileContent
          /\ processedContent' = fileContent
          /\ removals' = 0
          /\ vaultLog' = Append(vaultLog, <<"read", fileContent>>)
          /\ pc' = "range"
       \/ /\ pc' = CleanFileCatch
          /\ UNCHANGED <<content, processedContent, removals, vaultLog>>
    /\ UNCHANGED <<settings, earliestStartIndex, matchedStartMarker, earliestEndIndex,
                   matchedEndMarker, searchStart, fileContent, backups, notices,
                   data, saveCount>>

\* processContent has returned: if (result.content === content) and
\* if (this.settings.createBackup)
FileCompare ==
    /\ pc = "return"
    /\ IF processedContent = content
       THEN /\ notices' = Append(notices, <<"No lines found containing removal markers", 0>>)
            /\ pc' = "fileDone"
       ELSE /\ notices' = notices
            /\ pc' = IF settings.createBackup THEN "createBackup" ELSE "fileModify"
    /\ UNCHANGED <<settings, content, processedContent, removals, earliestStartIndex,
                   matchedStartMarker, earliestEndIndex, matchedEndMarker, searchStart,
                   fileContent, backups, vaultLog, data, saveCount>>

\* createBackup: vault.create and its notice, or an error thrown
CreateBackup ==
    /\ pc = "createBackup"
    /\ \/ LET text == BackupArgument(content, processedContent)
          IN  /\ backups' = Append(backups, text)
              /\ vaultLog' = Append(vaultLog, <<"create", text>>)
              /\ notices' = Append(notices, <<"Backup created", 0>>)
              /\ pc' = "fileModify"
       \/ /\ pc' = CreateBackupCatch
          /\ UNCHANGED <<backups, vaultLog, notices>>
    /\ UNCHANGED <<settings, content, processedContent, removals, earliestStartIndex,
                   matchedStartMarker, earliestEndIndex, matchedEndMarker, searchStart,
                   fileContent, data, saveCount>>

\* the catch of createBackup: a warning, and createBackup returns
BackupCatch ==
    /\ pc = "backupCatch"
    /\ notices' = Append(notices, <<"Warning: Could not create backup", 0>>)
    /\ pc' = "fileModify"
    /\ UNCHANGED <<settings, content, processedContent, removals, earliestStartIndex,
                   matchedStartMarker, earliestEndIndex, matchedEndMarker, searchStart,
                   fileContent, backups, vaultLog, data, saveCount>>

\* await this.app.vault.modify(file, result.content) and the notice of the
\* count, or an error thrown
FileModify ==
    /\ pc = "fileModify"
    /\ \/ /\ fileContent' = processedContent
          /\ vaultLog' = Append(vaultLog, <<"modify", processedContent>>)
          /\ notices' = Append(notices, <<"Processed removal operation(s)", removals>>)
          /\ pc' = "fileDone"
       \/ /\ pc' = CleanFileCatch
          /\ UNCHANGED <<fileContent, vaultLog, notices>>
    /\ UNCHANGED <<settings, content, processedContent, removals, earliestStartIndex,
                   matchedStartMarker, earliestEndIndex, matchedEndMarker, searchStart,
                   backups, data, saveCount>>

\* the catch of cleanFile: a notice, and cleanFile returns
FileCatch ==
    /\ pc = "fileCatch"
    /\ notices' = Append(notices, <<"Error cleaning file", 0>>)
    /\ pc' = "fileDone"
    /\ UNCHANGED <<settings, content, processedContent, removals, earliestStartIndex,
                   matchedStartMarker, earliestEndIndex, matchedEndMarker, searchStart,
                   fileContent, backups, vaultLog, data, saveCount>>

\* all stages on or all off, with and without backups
FileConfigs ==
    { [WithFlags(ShortMarkers, on) EXCEPT !.createBackup = backup] :
        on \in {AllFlags, {}}, backup \in BOOLEAN }

InitFile ==
    /\ fileContent \in PipelineTexts
    /\ settings \in FileConfigs
    /\ content = ""
    /\ processedContent = ""
    /\ removals = 0
    /\ pc = "fileRead"
    /\ NoLocals
    /\ backups = <<>>
    /\ notices = <<>>
    /\ vaultLog = <<>>
    /\ data = NoData
    /\ saveCount = 0

NextFile ==
    \/ FileRead
    \/ RangeStage
    \/ CommentStage
    \/ LinkStage
    \/ SingleLineStage
    \/ EmptyListStage
    \/ FinishedTasksStage
    \/ EmptyLinesStage
    \/ FileCompare
    \/ CreateBackup
    \/ BackupCatch
    \/ FileModify
    \/ FileCatch

SpecFile == InitFile /\ [][NextFile]_vars

-----------------------------------------------------------------------------
(* loadSettings and saveSettings.                                          *)

\* Migration configuration: old property -> new property
migrations ==
    << [oldKey |-> "removalString",        newKey |-> "removalStrings"],
       [oldKey |-> "rangeStartString",     newKey |-> "rangeStartStrings"],
       [oldKey |-> "rangeEndString",       newKey |-> "rangeEndStrings"],
       [oldKey |-> "cleanLinksString",     newKey |-> "cleanLinksStrings"],
       [oldKey |-> "commentCleanerString", newKey |-> "commentCleanerStrings"] >>

\* Object.assign({}, DEFAULT_SETTINGS, loadedData)
Assigned(loadedData) ==
    [key \in DOMAIN DEFAULT_SETTINGS \cup DOMAIN loadedData |->
        IF key \in DOMAIN loadedData THEN loadedData[key] ELSE DEFAULT_SETTINGS[key]]

\* a migration test that does not look for the new property
OldKeyLoaded(loadedData, migration) == migration.oldKey \in DOMAIN loadedData

\* loadedData && oldKey in loadedData && !(newKey in loadedData)
ShouldMigrate(loadedData, migration) ==
    /\ migration.oldKey \in DOMAIN loadedData
    /\ migration.newKey \notin DOMAIN loadedData

\* the settings after the loop over the migrations
Migrated(loadedData) ==
    LET assigned == Assigned(loadedData)
        applied  == {k \in DOMAIN migrations : ShouldMigrate(loadedData, migrations[k])}
    IN  [key \in DOMAIN assigned |->
            IF \E k \in applied : migrations[k].newKey = key
            THEN LET k == CHOOSE j \in applied : migrations[j].newKey = key
                 IN  <<loadedData[migrations[k].oldKey]>>
            ELSE assigned[key]]

\* needsSave after the loop over the migrations
NeedsSave(loadedData) ==
    \E k \in DOMAIN migrations : ShouldMigrate(loadedData, migrations[k])

\* loadSettings up to the test of needsSave, at a start of the plugin and
\* at the start after it
LoadSettings ==
    /\ pc \in {"load", "loaded"}
    /\ settings' = Migrated(data)
    /\ pc' = IF pc = "load"
             THEN (IF NeedsSave(data) THEN "save" ELSE "loaded")
             ELSE (IF NeedsSave(data) THEN "saveAgain" ELSE "loadedAgain")
    /\ UNCHANGED <<content, processedContent, removals, earliestStartIndex,
                   matchedStartMarker, earliestEndIndex, matchedEndMarker, searchStart,
                   fileContent, backups, notices, vaultLog, data, saveCount>>

\* saveSettings: await this.saveData(this.settings)
SaveSettings ==
    /\ pc \in {"save", "saveAgain"}
    /\ data' = settings
    /\ saveCount' = saveCount + 1
    /\ pc' = IF pc = "save" THEN "loaded" ELSE "loadedAgain"
    /\ UNCHANGED <<settings, content, processedContent, removals, earliestStartIndex,
                   matchedStartMarker, earliestEndIndex, matchedEndMarker, searchStart,
                   fileContent, backups, notices, vaultLog>>

\* the keys of the migrations
MigrationKeys ==
    {migrations[k].oldKey : k \in DOMAIN migrations}
        \cup {migrations[k].newKey : k \in DOMAIN migrations}

\* stored data: any of the old and new properties, with or without a
\* stored flag; an old property holds a string, a new one a list
StoredData ==
    { [key \in keys \cup flag |->
          IF key = "createBackup" THEN FALSE
          ELSE IF \E k \in DOMAIN migrations : migrations[k].oldKey = key
          THEN "old " \o key
          ELSE <<"new " \o key, "">>] :
        keys \in SUBSET MigrationKeys, flag \in {{}, {"createBackup"}} }

InitLoad ==
    /\ data \in StoredData
    /\ settings = DEFAULT_SETTINGS
    /\ content = ""
    /\ processedContent = ""
    /\ removals = 0
    /\ pc = "load"
    /\ NoLocals
    /\ fileContent = ""
    /\ backups = <<>>
    /\ notices = <<>>
    /\ vaultLog = <<>>
    /\ saveCount = 0

NextLoad == LoadSettings \/ SaveSettings

SpecLoad == InitLoad /\ [][NextLoad]_vars

-----------------------------------------------------------------------------
(* Properties of processRangeRemovals.                                     *)

\* marker occurs in text at the 0-based offset i
OccursAt(text, marker, i) ==
    /\ i >= 0
    /\ i + Len(marker) <= Len(text)
    /\ SubSeq(text, i + 1, i + Len(marker)) = marker

\* the markers of a list that have a character that is not white space
NonBlank(markers) ==
    {markers[k] : k \in {j \in DOMAIN markers :
        \E i \in 1 .. Len(markers[j]) : SubSeq(markers[j], i, i) \notin WhiteSpace}}

\* some marker of the set occurs in text at an offset in from .. to
OccursWithin(text, markerSet, from, to) ==
    \E m \in markerSet : \E i \in from .. to : OccursAt(text, m, i)

\* C3: an iteration that finds an end marker matched a non-blank start
\* marker at the smallest offset of any start marker and a non-blank end
\* marker at the smallest offset at or after the end of that start marker;
\* the new text is the text before the start marker followed by the text
\* after the end marker, and removals grows by exactly 1.
C3_RangeIterationDeletesEarliestRange ==
    [][ (pc = "rangeLoop" /\ earliestEndIndex' # -1) =>
        LET text   == processedContent
            starts == NonBlank(settings.rangeStartStrings)
            ends   == NonBlank(settings.rangeEndStrings)
            from   == earliestStartIndex' + Len(matchedStartMarker')
        IN  /\ matchedStartMarker' \in starts
            /\ OccursAt(text, matchedStartMarker', earliestStartIndex')
            /\ ~OccursWithin(text, starts, 0, earliestStartIndex' - 1)
            /\ matchedEndMarker' \in ends
            /\ OccursAt(text, matchedEndMarker', earliestEndIndex')
            /\ earliestEndIndex' >= from
            /\ ~OccursWithin(text, ends, from, earliestEndIndex' - 1)
            /\ processedContent' =
                   SubSeq(text, 1, earliestStartIndex') \o
                   SubSeq(text, earliestEndIndex' + Len(matchedEndMarker') + 1, Len(text))
            /\ removals' = removals + 1
            /\ pc' = "rangeLoop" ]_vars

\* C3 witness: one range with text inside it was deleted from the middle
\* of a text, both the text before and the text after it being kept.
C3_Witness ==
    /\ pc = "rangeLoop"
    /\ removals = 1
    /\ earliestStartIndex > 0
    /\ earliestEndIndex > earliestStartIndex + Len(matchedStartMarker)
    /\ Len(processedContent) > earliestStartIndex
    /\ Includes(content, "\n")
    /\ ~Includes(processedContent, "\n")

\* C4: when a start marker is found and no non-blank end marker occurs at
\* or after its end, the text is cut before the start marker, removals
\* grows by exactly 1, and the loop is left: nothing changes afterwards.
C4_RangeTruncatesWithoutEndMarker ==
    [][ /\ pc # "rangeReturn"
        /\ ( /\ pc = "rangeLoop"
             /\ earliestStartIndex' # -1
             /\ ~OccursWithin(processedContent, NonBlank(settings.rangeEndStrings),
                              earliestStartIndex' + Len(matchedStartMarker'),
                              Len(processedContent)) )
           => /\ OccursAt(processedContent, matchedStartMarker', earliestStartIndex')
              /\ ~OccursWithin(processedContent, NonBlank(settings.rangeStartStrings),
                               0, earliestStartIndex' - 1)
              /\ processedContent' = SubSeq(processedContent, 1, earliestStartIndex')
              /\ removals' = removals + 1
              /\ pc' = "rangeReturn" ]_vars

\* C4 witness: the loop was left by a truncation that followed a deleted
\* range, with text kept before the start marker.
C4_Witness ==
    /\ pc = "rangeReturn"
    /\ removals = 2
    /\ earliestEndIndex = -1
    /\ earliestStartIndex > 0
    /\ Len(processedContent) = earliestStartIndex

\* C5: with the default markers the example text becomes
\* "some text remaining text", with one removal.
C5_ReadmeRangeExample ==
    (pc = "rangeReturn" /\ content = ReadmeRangeText /\ settings = DEFAULT_SETTINGS)
        => /\ processedContent = "some text remaining text"
           /\ removals = 1

\* what the code returns for the example: both spaces around the range stay
C5_CodeResult ==
    (pc = "rangeReturn" /\ content = ReadmeRangeText /\ settings = DEFAULT_SETTINGS)
        => /\ processedContent = "some text  remaining text"
           /\ removals = 1

-----------------------------------------------------------------------------
(* Properties of processCommentCleaning.                                   *)

\* the offsets at or after `from` at which a %% delimiter lies
DelimitersFrom(text, from) == {i \in from .. Len(text) : OccursAt(text, "%%", i)}

\* some non-blank comment marker is a substring of inner
Marked(inner, s) ==
    \E m \in NonBlank(s.commentCleanerStrings) :
        \E i \in 0 .. Len(inner) : OccursAt(inner, m, i)

C7_UnterminatedCommentLeft ==
    [][ /\ pc # "commentReturn"
        /\ LET opens == DelimitersFrom(processedContent, searchStart)
           IN  (pc = "commentLoop" /\ opens # {}
                  /\ DelimitersFrom(processedContent, Min(opens) + 2) = {})
               => /\ pc' = "commentReturn"
                  /\ processedContent' = processedContent
                  /\ removals' = removals ]_vars

\* C7 witness: the scan ended at an unterminated comment that holds a
\* marker, after a marked span before it was deleted.
C7_Witness ==
    /\ pc = "commentReturn"
    /\ removals = 1
    /\ settings.commentCleanerStrings = <<"m">>
    /\ LET opens == DelimitersFrom(processedContent, searchStart)
       IN  /\ opens # {}
           /\ DelimitersFrom(processedContent, Min(opens) + 2) = {}
           /\ Includes(SubstringFrom(processedContent, Min(opens) + 2), "m")

-----------------------------------------------------------------------------
(* Properties of processLinkCleaning.                                      *)

\* the offsets of the line breaks of a text
NewlineOffsets(text) == {i \in 0 .. Len(text) - 1 : CharAt(text, i) = "\n"}

LineCount(text) == Cardinality(NewlineOffsets(text)) + 1

\* the offset of the k-th line break
NthNewline(text, k) ==
    CHOOSE i \in NewlineOffsets(text) :
        Cardinality({j \in NewlineOffsets(text) : j < i}) = k - 1

\* the k-th line of a text, without its line break
LineOf(text, k) ==
    LET from == IF k = 1 THEN 0 ELSE NthNewline(text, k - 1) + 1
        to   == IF k = LineCount(text) THEN Len(text) ELSE NthNewline(text, k)
    IN  SubSeq(text, from + 1, to)

\* some non-blank marker of the list is a substring of the line
HasMarker(line, markers) ==
    \E m \in NonBlank(markers) : \E i \in 0 .. Len(line) : OccursAt(line, m, i)

\* C8: the stage keeps the number and order of the lines, returns every
\* line without a non-blank link-clean marker as it was, links included,
\* and counts no more removals than there are lines with a marker.
C8_UnmarkedLinesUntouched ==
    pc = "linkReturn" =>
        LET markers == settings.cleanLinksStrings
            n       == LineCount(content)
        IN  /\ LineCount(processedContent) = n
            /\ \A k \in 1 .. n :
                   ~HasMarker(LineOf(content, k), markers)
                       => LineOf(processedContent, k) = LineOf(content, k)
            /\ removals <= Cardinality({k \in 1 .. n : HasMarker(LineOf(content, k), markers)})

\* C8 witness: a line with a link and no marker was returned as it was
\* while another line, with a marker, was rewritten.
C8_Witness ==
    /\ pc = "linkReturn"
    /\ removals = 1
    /\ \E k, j \in 1 .. LineCount(content) :
           /\ ~HasMarker(LineOf(content, k), settings.cleanLinksStrings)
           /\ Includes(LineOf(content, k), "[[a|b]]")
           /\ LineOf(processedContent, k) = LineOf(content, k)
           /\ HasMarker(LineOf(content, j), settings.cleanLinksStrings)
           /\ Includes(LineOf(content, j), "[[a]]")
           /\ LineOf(processedContent, j) # LineOf(content, j)

\* links whose target, display text, link text and url are plain text,
\* each with the text it is to be replaced by
PlainLinks ==
    { [link |-> "[[a]]",   shown |-> "a"],
      [link |-> "[[a|b]]", shown |-> "b"],
      [link |-> "[b](u)",  shown |-> "b"] }

\* a line with each link of PlainLinks replaced by its text in backticks,
\* every other character in place
RECURSIVE WithPlainLinksShown(_)
WithPlainLinksShown(line) ==
    IF line = "" THEN ""
    ELSE LET here == {l \in PlainLinks : OccursAt(line, l.link, 0)}
         IN  IF here # {}
             THEN LET l == CHOOSE x \in here : TRUE
                  IN  Backtick \o l.shown \o Backtick
                          \o WithPlainLinksShown(SubSeq(line, Len(l.link) + 1, Len(line)))
             ELSE SubSeq(line, 1, 1) \o WithPlainLinksShown(SubSeq(line, 2, Len(line)))

\* a line without the characters of a set
RECURSIVE WithoutChars(_, _)
WithoutChars(line, chars) ==
    IF line = "" THEN ""
    ELSE (IF SubSeq(line, 1, 1) \in chars THEN "" ELSE SubSeq(line, 1, 1))
             \o WithoutChars(SubSeq(line, 2, Len(line)), chars)

C10_NoMarkerLeftInRewrittenLine ==
    pc = "linkReturn" =>
        \A k \in 1 .. LineCount(content) :
            HasMarker(LineOf(content, k), settings.cleanLinksStrings)
                => ~HasMarker(LineOf(processedContent, k), settings.cleanLinksStrings)

\* C11: the count of the link stage is the number of lines whose returned
\* text differs from the line given: a line with a marker counts once,
\* however many links and markers it holds, and a line returned as it was
\* counts nothing.
C11_LinkRemovalsCountChangedLines ==
    pc = "linkReturn" =>
        /\ LineCount(processedContent) = LineCount(content)
        /\ removals = Cardinality({k \in 1 .. LineCount(content) :
                                      LineOf(processedContent, k) # LineOf(content, k)})

\* C11 witness: of two lines, the one with a link and two markers was
\* rewritten and counted once, the other, an empty one, was returned as it
\* was.
C11_Witness ==
    /\ pc = "linkReturn"
    /\ settings.cleanLinksStrings = <<"x", "M">>
    /\ content = "[[a]]xM\n"
    /\ processedContent = "'a'\n"
    /\ removals = 1

-----------------------------------------------------------------------------
(* Properties of the line filters and of processEmptyLineLimiting.         *)

\* the lines of a text whose number is in keep, in their order
RECURSIVE KeptFrom(_, _, _)
KeptFrom(text, k, keep) ==
    IF k > LineCount(text) THEN <<>>
    ELSE (IF k \in keep THEN <<LineOf(text, k)>> ELSE <<>>) \o KeptFrom(text, k + 1, keep)

\* lines with a line break between each two of them
RECURSIVE Rejoined(_)
Rejoined(lines) ==
    IF lines = <<>> THEN ""
    ELSE IF Len(lines) = 1 THEN lines[1]
    ELSE lines[1] \o "\n" \o Rejoined(Tail(lines))

\* a text without the lines whose number is in deleted
WithoutLines(text, deleted) ==
    Rejoined(KeptFrom(text, 1, (1 .. LineCount(text)) \ deleted))

\* the numbers of the lines of the text that hold a removal marker
MarkedLines(text, s) ==
    {k \in 1 .. LineCount(text) : HasMarker(LineOf(text, k), s.removalStrings)}

\* C12: the single line removal deletes exactly the lines that hold a
\* non-blank removal marker and returns the other lines as they were, in
\* their order, with a line break between them; removals is the number of
\* lines deleted.  The example of the README loses its two marked lines.
C12_SingleLineRemovalDeletesMarkedLines ==
    pc = "singleReturn" =>
        /\ processedContent = WithoutLines(content, MarkedLines(content, settings))
        /\ removals = Cardinality(MarkedLines(content, settings))
        /\ (content = ReadmeSingleText /\ settings = DEFAULT_SETTINGS)
               => /\ processedContent =
                         "This line stays\nThis line also stays\nFinal line stays"
                  /\ removals = 2

\* C12 witness: of three lines, the two with a marker of either kind were
\* deleted and the line between them was kept.
C12_Witness ==
    /\ pc = "singleReturn"
    /\ settings.removalStrings = <<"R", "Q">>
    /\ content = "Q\na\nR"
    /\ processedContent = "a"
    /\ removals = 2

\* the pairs of a line and a non-blank removal marker it holds
MarkerHits(text, s) ==
    {h \in (1 .. LineCount(text)) \X NonBlank(s.removalStrings) :
        \E i \in 0 .. Len(LineOf(text, h[1])) : OccursAt(LineOf(text, h[1]), h[2], i)}

\* C13 as stated: every marker a line holds is counted, so that a line with
\* two different markers adds 2 to removals.
C13_LineCountedPerMarker ==
    pc = "singleReturn" => removals = Cardinality(MarkerHits(content, settings))

\* C13, amended: a line is counted for the first marker of the list it
\* holds and is gone before the later markers are counted, so that a line
\* with two different markers adds 1 to removals.
C13_LineCountedForFirstMarkerOnly ==
    pc = "singleReturn" =>
        LET markers == settings.removalStrings
            holds(k, j) == /\ markers[j] \in NonBlank(markers)
                           /\ \E i \in 0 .. Len(LineOf(content, k)) :
                                  OccursAt(LineOf(content, k), markers[j], i)
            firstHits == {h \in (1 .. LineCount(content)) \X (DOMAIN markers) :
                             /\ holds(h[1], h[2])
                             /\ \A j \in 1 .. h[2] - 1 : ~holds(h[1], j)}
        IN  /\ removals = Cardinality(firstHits)
            /\ \A k \in 1 .. LineCount(content) :
                   Cardinality({h \in firstHits : h[1] = k}) <= 1

\* C13 witness: a line with both markers and a line with one of them were
\* deleted; three marker occurrences in lines, two removals.
C13_Witness ==
    /\ pc = "singleReturn"
    /\ settings.removalStrings = <<"R", "Q">>
    /\ content = "RQ\nQ"
    /\ processedContent = ""
    /\ removals = 2
    /\ Cardinality(MarkerHits(content, settings)) = 3

\* a line without the white space at its ends
Trimmed(line) ==
    LET inked == {i \in 1 .. Len(line) : SubSeq(line, i, i) \notin WhiteSpace}
    IN  IF inked = {} THEN ""
        ELSE SubSeq(line, Min(inked), CHOOSE i \in inked : \A j \in inked : j <= i)

\* the text is a bullet, or a bullet, white space and one bracketed token
\* that ends the text: no closing bracket lies before the last character
BareListItem(text) ==
    /\ OccursAt(text, "-", 0)
    /\ \E from \in 1 .. Len(text) :
           /\ \A j \in 1 .. from - 1 : CharAt(text, j) \in WhiteSpace
           /\ \/ from = Len(text)
              \/ /\ CharAt(text, from) = "["
                 /\ CharAt(text, Len(text) - 1) = "]"
                 /\ \A j \in from + 1 .. Len(text) - 2 : CharAt(text, j) # "]"

\* C14: the empty list item removal deletes exactly the lines whose trimmed
\* text is a bare bullet or a bullet with one bracketed token and nothing
\* after it; a line with text after the bracket, such as a task whose text
\* ends with a closing bracket, is kept; removals is the number of lines
\* deleted.
C14_OnlyBareListItemsDeleted ==
    pc = "emptyListReturn" =>
        LET bare == {k \in 1 .. LineCount(content) :
                        BareListItem(Trimmed(LineOf(content, k)))}
        IN  /\ processedContent = WithoutLines(content, bare)
            /\ removals = Cardinality(bare)

\* what the code does: a line is deleted when its trimmed text is a bullet,
\* or a bullet, white space and a text from an opening bracket to the last
\* character, a closing bracket; closing brackets may lie in between.
C14_CodeResult ==
    pc = "emptyListReturn" =>
        LET hit == {k \in 1 .. LineCount(content) :
                       LET text == Trimmed(LineOf(content, k))
                       IN  /\ OccursAt(text, "-", 0)
                           /\ \E from \in 1 .. Len(text) :
                                  /\ \A j \in 1 .. from - 1 : CharAt(text, j) \in WhiteSpace
                                  /\ \/ from = Len(text)
                                     \/ /\ from < Len(text) - 1
                                        /\ CharAt(text, from) = "["
                                        /\ CharAt(text, Len(text) - 1) = "]"}
        IN  /\ processedContent = WithoutLines(content, hit)
            /\ removals = Cardinality(hit)

\* the text starts with a bullet, white space if any, and a checked box
CheckedTask(text) ==
    /\ OccursAt(text, "-", 0)
    /\ \E from \in 1 .. Len(text) :
           /\ \A j \in 1 .. from - 1 : CharAt(text, j) \in WhiteSpace
           /\ OccursAt(text, "[x]", from) \/ OccursAt(text, "[X]", from)

\* C15: the finished task removal deletes exactly the lines whose trimmed
\* text starts with a bullet, optional white space and [x] or [X], whatever
\* follows; unchecked tasks and all other lines are returned as they were,
\* in their order; removals is the number of lines deleted.  The example of
\* the usage tab keeps its heading and its two unchecked tasks.
C15_FinishedTasksDeleted ==
    pc = "finishedReturn" =>
        LET checked == {k \in 1 .. LineCount(content) :
                           CheckedTask(Trimmed(LineOf(content, k)))}
        IN  /\ processedContent = WithoutLines(content, checked)
            /\ removals = Cardinality(checked)
            /\ content = UsageTasksText
                   => /\ processedContent =
                             "My tasks:\n- [ ] Todo item\n- [ ] Still pending"
                      /\ removals = 3

\* C15 witness: a task checked with a capital X and text after the box was
\* deleted, the line with an unchecked box before it was kept.
C15_Witness ==
    /\ pc = "finishedReturn"
    /\ content = "[ ]\n-[X][x"
    /\ processedContent = "[ ]"
    /\ removals = 1

\* the line has no character but white space
BlankLine(line) == Trimmed(line) = ""

\* the place of the k-th line in the run of blank lines that it ends
RunPosition(text, k) ==
    k - (CHOOSE j \in 0 .. k :
            /\ j = 0 \/ ~BlankLine(LineOf(text, j))
            /\ \A i \in j + 1 .. k : BlankLine(LineOf(text, i)))

\* C16: the limiter keeps every line that is not blank and, of every run
\* of blank lines, the first maxConsecutiveEmptyLines at most; the lines
\* kept never hold more than maxConsecutiveEmptyLines blank lines in a
\* row; removals is the number of blank lines dropped.  With a maximum of
\* one, three blank lines between A and B become one.
C16_EmptyRunsLimited ==
    pc = "emptyLinesReturn" =>
        LET max     == settings.maxConsecutiveEmptyLines
            n       == LineCount(content)
            dropped == {k \in 1 .. n : /\ BlankLine(LineOf(content, k))
                                        /\ RunPosition(content, k) > max}
            kept    == KeptFrom(content, 1, (1 .. n) \ dropped)
        IN  /\ processedContent = Rejoined(kept)
            /\ removals = Cardinality(dropped)
            /\ \A k \in 1 .. Len(kept) - max :
                   \E i \in k .. k + max : ~BlankLine(kept[i])
            /\ (content = "a\n\n\n\na" /\ max = 1) => processedContent = "a\n\na"
            /\ (content = ReadmeRunText /\ max = 1)
                   => processedContent =
                          "First paragraph\n\nSecond paragraph\n\nThird paragraph"

\* C16 witness: with a maximum of one, a run of two blank lines, the
\* first of them a space, lost its second line.
C16_Witness ==
    /\ pc = "emptyLinesReturn"
    /\ settings.maxConsecutiveEmptyLines = 1
    /\ content = "a\n \n\na"
    /\ processedContent = "a\n \na"
    /\ removals = 1

-----------------------------------------------------------------------------
(* Properties of the marker stages: blank markers, and a second call.      *)

\* the marker lists of a stage
StageMarkers(stage, s) ==
    CASE stage = "range"   -> s.rangeStartStrings \o s.rangeEndStrings
      [] stage = "comment" -> s.commentCleanerStrings
      [] stage = "link"    -> s.cleanLinksStrings
      [] stage = "single"  -> s.removalStrings

\* C17: the range removal, the comment cleaning, the link cleaning and the
\* single line removal, each with no marker that is not empty or white
\* space (or with no marker at all), return the text given with
\* removals 0.
C17_BlankMarkersChangeNothing ==
    \A stage \in {"range", "comment", "link", "single"} :
        (pc = stage \o "Return" /\ NonBlank(StageMarkers(stage, settings)) = {})
            => (processedContent = content /\ removals = 0)

\* C17 witness: the comment cleaning, with a space and the empty marker
\* configured, returned a text that holds a space in a comment, a link and
\* a line break.
C17_Witness ==
    /\ pc = "commentReturn"
    /\ settings.commentCleanerStrings = <<"", " \t">>
    /\ content = "%% %%\n[[a]] "
    /\ processedContent = content
    /\ removals = 0

\* C18: the range removal, called with the text it returned and the same
\* markers, returns that text with removals 0.
C18_RangeRemovalIdempotent ==
    [][ pc = "rangeReturn" => (processedContent' = processedContent /\ removals' = 0) ]_vars

\* C18 witness: the first call deleted two ranges and the second call, on
\* the text left, counted nothing.
C18_Witness ==
    /\ pc = "rangeAgain"
    /\ settings.rangeStartStrings = <<"s">>
    /\ settings.rangeEndStrings = <<"e">>
    /\ content = "sexse"
    /\ processedContent = "x"
    /\ removals = 0

\* C19: the comment cleaning, called with the text it returned and the
\* same markers, returns that text with removals 0, also for texts with
\* unbalanced or adjacent % characters.
C19_CommentCleaningIdempotent ==
    [][ pc = "commentReturn" => (processedContent' = processedContent /\ removals' = 0) ]_vars

\* C19 witness: the first call removed a marked comment between single %
\* characters and the second call, on the % left, counted nothing.
C19_Witness ==
    /\ pc = "commentAgain"
    /\ settings.commentCleanerStrings = <<"m">>
    /\ content = "%%%m%%%"
    /\ processedContent = "%"
    /\ removals = 0

\* C20: the link cleaning, called with the text it returned and the same
\* markers, returns that text with removals 0.
C20_LinkCleaningIdempotent ==
    [][ pc = "linkReturn" => (processedContent' = processedContent /\ removals' = 0) ]_vars

\* what the code does: the second call returns its text with removals 0
\* when the first call left no marker in any line.
C20_CodeResult ==
    [][ ( /\ pc = "linkReturn"
          /\ \A k \in 1 .. LineCount(processedContent) :
                 ~HasMarker(LineOf(processedContent, k), settings.cleanLinksStrings) )
        => (processedContent' = processedContent /\ removals' = 0) ]_vars

\* C21: the single line removal, the empty list item removal, the
\* finished task removal and the limiter of empty lines, each called with
\* the text it returned and the same settings, return that text.
C21_LineStagesIdempotent ==
    [][ (pc \in {"singleReturn", "emptyListReturn", "finishedReturn", "emptyLinesReturn"})
           => (processedContent' = processedContent) ]_vars

\* C21 witness: with a maximum of one the limiter dropped a blank line in
\* its first call and returned the text left in its second call.
C21_Witness ==
    /\ pc = "emptyLinesAgain"
    /\ settings.maxConsecutiveEmptyLines = 1
    /\ content = "a\n \n\na"
    /\ processedContent = "a\n \na"
    /\ removals = 0

-----------------------------------------------------------------------------
(* Properties of processContent.                                           *)

\* the stages in the order in which they are documented to run
DocumentedOrder ==
    <<"range", "comment", "link", "single", "emptyList", "finished", "emptyLines">>

\* the enable flag of a stage
StageEnabled(stage, s) ==
    CASE stage = "range"      -> s.enableRangeRemoval
      [] stage = "comment"    -> s.enableCommentCleaning
      [] stage = "link"       -> s.enableLinkCleaning
      [] stage = "single"     -> s.enableSingleLineRemoval
      [] stage = "emptyList"  -> s.removeEmptyListItems
      [] stage = "finished"   -> s.removeFinishedTasks
      [] stage = "emptyLines" -> s.enableEmptyLineLimiting

\* the result of a stage for a text
StageResult(stage, text, s) ==
    CASE stage = "range"      -> ProcessRangeRemovals(text, s)
      [] stage = "comment"    -> ProcessCommentCleaning(text, s)
      [] stage = "link"       -> ProcessLinkCleaning(text, s)
      [] stage = "single"     -> ProcessSingleLineRemovals(text, s)
      [] stage = "emptyList"  -> ProcessEmptyListItemRemoval(text)
      [] stage = "finished"   -> ProcessFinishedTasksRemoval(text)
      [] stage = "emptyLines" -> ProcessEmptyLineLimiting(text, s)

\* the enabled stages from the k-th on, applied in the documented order,
\* each to the text of the one before it, the counts summed
RECURSIVE Composed(_, _, _, _)
Composed(k, text, count, s) ==
    IF k > Len(DocumentedOrder) THEN [content |-> text, removals |-> count]
    ELSE IF StageEnabled(DocumentedOrder[k], s)
    THEN LET result == StageResult(DocumentedOrder[k], text, s)
         IN  Composed(k + 1, result.content, count + result.removals, s)
    ELSE Composed(k + 1, text, count, s)

\* C1: the stages run in the order range, comment, link, single line,
\* empty list item, finished task, empty lines, and the returned text is
\* that of the enabled stages applied in this order, each to the text of
\* the one before it; a marked comment or marked line inside a range is
\* gone after the range removal and is not counted by the later stages.
C1_StagesRunInOrder ==
    [][ /\ \E k \in DOMAIN DocumentedOrder :
               /\ pc = DocumentedOrder[k]
               /\ pc' = IF k = Len(DocumentedOrder) THEN "return"
                        ELSE DocumentedOrder[k + 1]
        /\ pc' = "return" => processedContent' = Composed(1, content, 0, settings).content
        /\ ( /\ content \in {"S%%c%%E", "SRE", "SR\nE"}
             /\ settings.enableRangeRemoval
             /\ pc' \in {"link", "emptyList"} )
           => (processedContent' = "" /\ removals' = 1) ]_vars

\* C1 witness: all stages ran on a text whose range holds a marked comment
\* and a marked line; one removal was counted for them.
C1_Witness ==
    /\ pc = "return"
    /\ content = PipelineExample
    /\ \A k \in DOMAIN DocumentedOrder : StageEnabled(DocumentedOrder[k], settings)
    /\ processedContent = "intro  outro\nsee 'Note' \n\nend"
    /\ removals = 6

\* C2: a stage whose flag is off changes neither the running text nor the
\* running count; the returned count is the sum of the counts of the
\* enabled stages; with all seven flags off the input is returned with a
\* count of 0.
C2_DisabledStagesSkipped ==
    [][ /\ ~StageEnabled(pc, settings)
            => (processedContent' = processedContent /\ removals' = removals)
        /\ pc' = "return" => removals' = Composed(1, content, 0, settings).removals
        /\ ( /\ pc' = "return"
             /\ \A k \in DOMAIN DocumentedOrder : ~StageEnabled(DocumentedOrder[k], settings) )
           => (processedContent' = content /\ removals' = 0) ]_vars

\* C2 witness: with the range removal off and the comment cleaning on, the
\* range markers stayed and the marked comment between them was removed
\* and counted.
C2_Witness ==
    /\ pc = "return"
    /\ content = "S%%c%%E"
    /\ ~settings.enableRangeRemoval
    /\ settings.enableCommentCleaning
    /\ processedContent = "SE"
    /\ removals = 1

\* C2 witness, all flags off: a text full of markers was returned as it was
C2_WitnessAllOff ==
    /\ pc = "return"
    /\ content = PipelineExample
    /\ \A k \in DOMAIN DocumentedOrder : ~StageEnabled(DocumentedOrder[k], settings)
    /\ processedContent = content
    /\ removals = 0

-----------------------------------------------------------------------------
(* Properties of cleanFile and createBackup.                               *)

\* the places in the log of the calls of one kind
Calls(kind) == {i \in DOMAIN vaultLog : vaultLog[i][1] = kind}

\* the notices of one text
Noticed(text) == {i \in DOMAIN notices : notices[i][1] = text}

\* C22: the file is modified only with a text that differs from the text
\* read, and that text is processContent of the text read; when
\* processContent returns the text read, no backup is created and nothing
\* is written.  A backup is created only when the text changed and
\* createBackup is on, before the file is modified, with the text read as
\* its content; with createBackup on the file is not modified before
\* createBackup has run.
C22_FileWrittenOnlyWhenChanged ==
    /\ Calls("read") \subseteq {1}
    /\ Calls("read") = {} => (vaultLog = <<>> /\ backups = <<>>)
    /\ Calls("read") # {} =>
         LET read   == vaultLog[1][2]
             result == Composed(1, read, 0, settings).content
         IN  /\ \A i \in Calls("modify") :
                    /\ vaultLog[i][2] = result
                    /\ result # read
                    /\ fileContent = result
                    /\ i = Len(vaultLog)
                    /\ settings.createBackup
                          => \/ vaultLog[i - 1][1] = "create"
                             \/ Noticed("Warning: Could not create backup") # {}
             /\ \A i \in Calls("create") :
                    /\ vaultLog[i][2] = read
                    /\ backups = <<read>>
                    /\ result # read
                    /\ settings.createBackup
                    /\ i = 2
                    /\ \A j \in Calls("modify") : i < j
             /\ Calls("create") = {} => backups = <<>>
             /\ Calls("modify") = {} => fileContent = read
             /\ (result = read /\ pc = "fileDone")
                    => /\ vaultLog = <<<<"read", read>>>>
                       /\ notices = <<<<"No lines found containing removal markers", 0>>>>

\* C22 witness: a file with a marked line was read, saved as a backup and
\* then overwritten with the cleaned text.
C22_Witness ==
    /\ pc = "fileDone"
    /\ vaultLog = << <<"read", "R\nE">>, <<"create", "R\nE">>, <<"modify", "E">> >>
    /\ backups = <<"R\nE">>
    /\ fileContent = "E"

\* C23: an error of the read or of the write is caught in cleanFile and
\* shown in a notice, and cleanFile returns; the file is modified at most
\* once, not while processContent runs, and with the whole text that
\* processContent returned; after a failed read there is no backup and no
\* write.
C23_FileErrorsCaught ==
    /\ pc # "fileRejected"
    /\ Cardinality(Calls("modify")) <= 1
    /\ pc \in {DocumentedOrder[k] : k \in DOMAIN DocumentedOrder} \cup {"return"}
          => /\ vaultLog = <<<<"read", content>>>>
             /\ fileContent = content
    /\ \A i \in Calls("modify") :
           vaultLog[i][2] = Composed(1, content, 0, settings).content
    /\ pc = "fileCatch" => (Calls("read") = {} \/ Calls("modify") = {})
    /\ pc = "fileDone" =>
          /\ Calls("read") = {}
                => /\ notices = <<<<"Error cleaning file", 0>>>>
                   /\ vaultLog = <<>>
                   /\ backups = <<>>
          /\ (Calls("read") # {} /\ Calls("modify") = {} /\ processedContent # content)
                => /\ notices[Len(notices)] = <<"Error cleaning file", 0>>
                   /\ fileContent = content
          /\ Calls("modify") # {} => Noticed("Error cleaning file") = {}

\* C23 witness: the write failed after the backup was created; the error
\* was shown and the file still holds the text read.
C23_Witness ==
    /\ pc = "fileDone"
    /\ vaultLog = << <<"read", "R\nE">>, <<"create", "R\nE">> >>
    /\ notices = << <<"Backup created", 0>>, <<"Error cleaning file", 0>> >>
    /\ fileContent = "R\nE"

\* C30: an error in createBackup is caught there and shown as a warning,
\* and cleanFile goes on to modify the file: the catch of createBackup
\* leads to the write, never to the catch of cleanFile, and when the write
\* succeeds the file holds the cleaned text while no backup exists.
C30_BackupFailureDoesNotAbort ==
    [][ /\ (pc = "createBackup" /\ backups' = backups) => pc' = "backupCatch"
        /\ pc = "backupCatch"
             => /\ pc' = "fileModify"
                /\ notices' = Append(notices, <<"Warning: Could not create backup", 0>>)
                /\ UNCHANGED <<fileContent, backups, vaultLog>>
        /\ (pc = "fileModify" /\ Noticed("Warning: Could not create backup") # {})
             => \/ pc' = "fileCatch" /\ fileContent' = fileContent
                \/ /\ pc' = "fileDone"
                   /\ fileContent' = processedContent
                   /\ fileContent' # content
                   /\ backups' = <<>>
                   /\ settings.createBackup ]_vars

\* C30 witness: with createBackup on, the backup failed, the warning was
\* shown and the file was overwritten; no backup exists.
C30_Witness ==
    /\ pc = "fileDone"
    /\ settings.createBackup
    /\ vaultLog = << <<"read", "R\nE">>, <<"modify", "E">> >>
    /\ notices = << <<"Warning: Could not create backup", 0>>,
                    <<"Processed removal operation(s)", 1>> >>
    /\ backups = <<>>
    /\ fileContent = "E"

-----------------------------------------------------------------------------
(* Properties of loadSettings.                                             *)

\* C24: in a load each of the five list properties is set on its own: to
\* the one-element list of the old property when the stored data has the
\* old property and not the list, to the stored list when there is one
\* (the old property is then ignored), else to its default.  The settings
\* are saved once in a load that migrated a property and not at all in
\* any other; the load after it migrates nothing, saves nothing and
\* yields the same settings.
C24_LegacySettingsMigratedOnce ==
    [][ /\ (pc \in {"load", "loaded"}) =>
             /\ \A k \in DOMAIN migrations :
                    LET old == migrations[k].oldKey
                        new == migrations[k].newKey
                    IN  settings'[new] =
                            IF new \in DOMAIN data THEN data[new]
                            ELSE IF old \in DOMAIN data THEN <<data[old]>>
                            ELSE DEFAULT_SETTINGS[new]
             /\ pc' \in {"save", "saveAgain"}
                   <=> \E k \in DOMAIN migrations :
                           /\ migrations[k].oldKey \in DOMAIN data
                           /\ migrations[k].newKey \notin DOMAIN data
             /\ saveCount' = saveCount
        /\ pc = "save" => (saveCount' = 1 /\ pc' = "loaded" /\ data' = settings)
        /\ pc = "loaded"
             => (pc' = "loadedAgain" /\ settings' = settings /\ saveCount' = saveCount)
        /\ saveCount' <= 1 ]_vars

\* C24 witness: the stored data held an old removal marker without the
\* list and an old range start marker with the list; the first was
\* migrated and saved once, the second ignored, and the second load
\* changed nothing.
C24_Witness ==
    /\ pc = "loadedAgain"
    /\ saveCount = 1
    /\ DOMAIN data = DOMAIN DEFAULT_SETTINGS \cup {"removalString", "rangeStartString"}
    /\ settings.removalStrings = <<"old removalString">>
    /\ settings.rangeStartString = "old rangeStartString"
    /\ settings.rangeStartStrings = <<"new rangeStartStrings", "">>
    /\ settings.rangeEndStrings = DEFAULT_SETTINGS.rangeEndStrings
    /\ data = settings

-----------------------------------------------------------------------------
(* Properties of processContent: termination.                              *)

\* C25: processContent returns for every text and every configuration:
\* the loop of the range removal and the loop of the comment cleaning each
\* end after finitely many iterations, also on unterminated, nested and
\* overlapping markers, and no state is reached from which the function
\* cannot go on.
C25_ProcessContentReturns == <>(pc = "return")

\* C25 witness: a text with a nested and an unterminated range start and
\* an unterminated comment was cleaned in two iterations of the range
\* loop, and the function returned.
C25_Witness ==
    /\ pc = "return"
    /\ content = "SSES"
    /\ settings.rangeEndStrings = <<"E">>
    /\ settings.rangeStartStrings = <<"S">>
    /\ processedContent = ""
    /\ removals = 2


-----------------------------------------------------------------------------
(* The start marker taken when several occur at the smallest offset.       *)

\* the largest of a set of numbers
Max(S) == CHOOSE i \in S : \A j \in S : j <= i

\* the offsets from `from` on at which a marker that is not blank stands
MarkerOffsets(text, markers, from) ==
    {i \in from .. Len(text) :
        \E k \in DOMAIN markers : ~IsBlank(markers[k]) /\ OccursAt(text, markers[k], i)}

\* the positions in the list of the markers, not blank, that stand at the
\* offset
MarkersAt(text, markers, offset) ==
    {k \in DOMAIN markers : ~IsBlank(markers[k]) /\ OccursAt(text, markers[k], offset)}

\* the end marker of an iteration is the nearest one from `from` on, none
\* when there is none
EndSearchedFrom(text, markers, from, endIndex, endMarker) ==
    LET offsets == MarkerOffsets(text, markers, from)
    IN  IF offsets = {} THEN endIndex = -1
        ELSE /\ endIndex = Min(offsets)
             /\ MarkersAt(text, markers, endIndex) # {}
             /\ endMarker = markers[Min(MarkersAt(text, markers, endIndex))]

\* an iteration takes the start marker at the smallest offset, of several
\* there the one at the list position `pick` chooses, and looks for the end
\* marker from the end of the marker taken
IterationTakes(pick(_)) ==
    LET text    == processedContent
        starts  == settings.rangeStartStrings
        offsets == MarkerOffsets(text, starts, 0)
    IN  IF offsets = {} THEN earliestStartIndex' = -1
        ELSE LET taken == starts[pick(MarkersAt(text, starts, Min(offsets)))]
             IN  /\ earliestStartIndex' = Min(offsets)
                 /\ matchedStartMarker' = taken
                 /\ EndSearchedFrom(text, settings.rangeEndStrings,
                                    Min(offsets) + Len(taken),
                                    earliestEndIndex', matchedEndMarker')

\* C26 as stated: of the start markers at the smallest offset the last of
\* the list is matched, and the end marker is looked for after its end
C26_LastOfTiedStartMarkersMatched ==
    [][ (pc = "rangeLoop") => IterationTakes(Max) ]_vars

\* C26, amended: of the start markers at the smallest offset the first of
\* the list is matched, and the end marker is looked for from the end of
\* that marker on
C26_FirstOfTiedStartMarkersMatched ==
    [][ (pc = "rangeLoop") => IterationTakes(Min) ]_vars

\* C26 witness: s and se both stand at offset 0; s, the first of the list,
\* was matched, and the e of se closed the range, so that the text after it
\* was kept
C26_Witness ==
    /\ settings.rangeStartStrings = <<"s", "se">>
    /\ settings.rangeEndStrings = <<"e">>
    /\ content = "sex e"
    /\ pc = "rangeLoop"
    /\ removals = 1
    /\ earliestStartIndex = 0
    /\ matchedStartMarker = "s"
    /\ earliestEndIndex = 1
    /\ processedContent = "x e"

-----------------------------------------------------------------------------
(* The order of the ranges removed in one call.                            *)

\* C27: after a deletion the next range begins at or behind the offset of
\* the range deleted before it, so that the text kept in front of that
\* range stays as it is; a start marker that the text before and the text
\* after a deleted range form together is not matched.
C27_RangesRemovedLeftToRight ==
    [][ (pc = "rangeLoop" /\ earliestStartIndex # -1 /\ earliestStartIndex' # -1) =>
            /\ earliestStartIndex' >= earliestStartIndex
            /\ Substring(processedContent', 0, earliestStartIndex)
                   = Substring(processedContent, 0, earliestStartIndex) ]_vars

\* what the code does: every iteration searches from the beginning of the
\* text that the deletion before it left, so a later range may begin in
\* front of the offset of the range before it, by less than the length of
\* the longest start marker
C27_CodeResult ==
    [][ (pc = "rangeLoop" /\ earliestStartIndex # -1 /\ earliestStartIndex' # -1) =>
            /\ earliestStartIndex' = Min(MarkerOffsets(processedContent,
                                                       settings.rangeStartStrings, 0))
            /\ earliestStartIndex' + Len(matchedStartMarker') > earliestStartIndex ]_vars

\* C28: the text that processRangeRemovals returns holds no start marker
\* that is not blank
C28_NoStartMarkerLeft ==
    pc = "rangeReturn" =>
        MarkerOffsets(processedContent, settings.rangeStartStrings, 0) = {}

\* C28 witness: after a deleted range and a truncation at the second of
\* two start markers the text in front of both was returned
C28_Witness ==
    /\ pc = "rangeReturn"
    /\ settings.rangeStartStrings = <<"s", "sx">>
    /\ content = "xsexs"
    /\ processedContent = "xx"
    /\ removals = 2

-----------------------------------------------------------------------------
(* The count of a text that was changed.                                   *)

\* C29: when processContent returns removals = 0 the text returned is the
\* text given; a text that was changed comes with a count of at least 1,
\* which is the count that cleanFile and cleanSelection report when they
\* write.  It holds after every stage.
C29_ChangedTextIsCounted ==
    /\ removals = 0 => processedContent = content
    /\ processedContent # content => removals >= 1

\* C29 witness: with the range removal off and the other stages on, a text
\* of a start and an end marker was returned as it was with removals = 0
C29_Witness ==
    /\ pc = "return"
    /\ ~settings.enableRangeRemoval
    /\ settings.enableCommentCleaning
    /\ settings.enableSingleLineRemoval
    /\ content = "SE"
    /\ processedContent = "SE"
    /\ removals = 0

=============================================================================
